---------------------------- MODULE Spec2Model ----------------------------
(***************************************************************************)
(* A model of the SimpleToolkit scripts (src/Scripts): the PCI path        *)
(* converter, the support-list loader and tiered matcher of the hardware   *)
(* information tool, and the support-list editor's file format.            *)
(*                                                                         *)
(* Text is modelled as a sequence of one-character strings, so that the    *)
(* code's slicing, splitting, trimming and case conversion are computed    *)
(* character by character.  A Python None is the one-element sequence      *)
(* <<"None">>, and a fixed message of the code (such as the default detail *)
(* text) is a one-element sequence holding that message: neither can be    *)
(* confused with a text, whose elements are single characters.             *)
(***************************************************************************)
EXTENDS Integers, Sequences, FiniteSets, TLC

(***************************************************************************)
(* Characters and Python's str methods                                     *)
(***************************************************************************)
LowerLetters == <<"a","b","c","d","e","f","g","h","i","j","k","l","m",
                  "n","o","p","q","r","s","t","u","v","w","x","y","z">>
UpperLetters == <<"A","B","C","D","E","F","G","H","I","J","K","L","M",
                  "N","O","P","Q","R","S","T","U","V","W","X","Y","Z">>
DecDigits == <<"0","1","2","3","4","5","6","7","8","9">>
HexDigitsUpper == <<"0","1","2","3","4","5","6","7","8","9",
                    "A","B","C","D","E","F">>
HexDigitsLower == <<"0","1","2","3","4","5","6","7","8","9",
                    "a","b","c","d","e","f">>

\* The control characters 0x0B and 0x1C to 0x1F: vertical tab and the file,
\* group, record and unit separators.
VT == ""
FS == ""
GS == ""
RS == ""
US == ""

\* The characters for which str.isspace() holds, as far as a string of the
\* model can hold them; str.strip() removes these.
Whitespace == {" ", "\t", "\n", "\r", "\f", VT, FS, GS, RS, US}

\* The characters int() skips around a number.
IntWhitespace == {" ", "\t", "\n", "\r", "\f", VT}

\* The characters at which str.splitlines() ends a line.
LineBreaks == {"\n", "\r", "\f", VT, FS, GS, RS}

None == <<"None">>

Range(s) == {s[i] : i \in 1..Len(s)}

\* str.upper() on one ASCII character.
UpperChar(c) ==
    IF \E i \in 1..Len(LowerLetters) : LowerLetters[i] = c
    THEN UpperLetters[CHOOSE i \in 1..Len(LowerLetters) : LowerLetters[i] = c]
    ELSE c

\* str.upper()
Upper(s) == [i \in 1..Len(s) |-> UpperChar(s[i])]

\* str.lower() on one ASCII character.
LowerChar(c) ==
    IF \E i \in 1..Len(UpperLetters) : UpperLetters[i] = c
    THEN LowerLetters[CHOOSE i \in 1..Len(UpperLetters) : UpperLetters[i] = c]
    ELSE c

\* str.lower()
Lower(s) == [i \in 1..Len(s) |-> LowerChar(s[i])]

IsDecDigit(c) == c \in Range(DecDigits)
IsHexDigit(c) == c \in Range(HexDigitsUpper) \cup Range(HexDigitsLower)

\* The value of a hex digit in either case (0 for any other character).
HexDigitVal(c) ==
    IF \E i \in 1..16 : HexDigitsUpper[i] = UpperChar(c)
    THEN (CHOOSE i \in 1..16 : HexDigitsUpper[i] = UpperChar(c)) - 1
    ELSE 0

\* s[a:b] with 0 <= a and b counted from the start (Python slice, 0-based,
\* end exclusive, clipped to the string).
Slice(s, a, b) ==
    LET hi == IF b > Len(s) THEN Len(s) ELSE b
    IN  IF a >= hi THEN <<>> ELSE SubSeq(s, a + 1, hi)

\* s[a:]
SliceFrom(s, a) == Slice(s, a, Len(s))

\* s[a:-1]
SliceDropLast(s, a) == Slice(s, a, Len(s) - 1)

\* str.startswith(p)
StartsWith(s, p) == Len(s) >= Len(p) /\ SubSeq(s, 1, Len(p)) = p

\* str.endswith(p)
EndsWith(s, p) ==
    Len(s) >= Len(p) /\ SubSeq(s, Len(s) - Len(p) + 1, Len(s)) = p

\* sub in s
Contains(s, sub) ==
    \E i \in 0..(Len(s) - Len(sub)) : SubSeq(s, i + 1, i + Len(sub)) = sub

\* c in s, for one character c
HasChar(s, c) == \E i \in 1..Len(s) : s[i] = c

\* The 1-based position of the first c in s (0 when there is none).
FirstIndex(s, c) ==
    IF HasChar(s, c)
    THEN CHOOSE i \in 1..Len(s) : s[i] = c /\ \A j \in 1..(i - 1) : s[j] # c
    ELSE 0

\* The text without its leading and trailing characters of the set chars.
StripOf(s, chars) ==
    IF \A i \in 1..Len(s) : s[i] \in chars
    THEN <<>>
    ELSE LET lo == CHOOSE i \in 1..Len(s) :
                       s[i] \notin chars
                       /\ \A j \in 1..(i - 1) : s[j] \in chars
             hi == CHOOSE i \in 1..Len(s) :
                       s[i] \notin chars
                       /\ \A j \in (i + 1)..Len(s) : s[j] \in chars
         IN  SubSeq(s, lo, hi)

\* str.strip(): leading and trailing whitespace removed.
Strip(s) == StripOf(s, Whitespace)

\* A variant that removes the leading underscores only.
LStripUnderscore(s) ==
    IF \A i \in 1..Len(s) : s[i] = "_" THEN <<>>
    ELSE LET lo == CHOOSE i \in 1..Len(s) :
                       s[i] # "_" /\ \A j \in 1..(i - 1) : s[j] = "_"
         IN  SubSeq(s, lo, Len(s))

\* str.strip("_")
StripUnderscore(s) ==
    IF \A i \in 1..Len(s) : s[i] = "_"
    THEN <<>>
    ELSE LET lo == CHOOSE i \in 1..Len(s) :
                       s[i] # "_" /\ \A j \in 1..(i - 1) : s[j] = "_"
             hi == CHOOSE i \in 1..Len(s) :
                       s[i] # "_" /\ \A j \in (i + 1)..Len(s) : s[j] = "_"
         IN  SubSeq(s, lo, hi)

\* str.split(sep) for a one-character separator: always at least one part.
RECURSIVE Split(_, _)
Split(s, sep) ==
    IF ~HasChar(s, sep)
    THEN <<s>>
    ELSE LET i == FirstIndex(s, sep)
         IN  <<SubSeq(s, 1, i - 1)>> \o Split(SubSeq(s, i + 1, Len(s)), sep)

\* str.split(sep, 1) of a string that holds sep: the text before the first
\* sep and the text after it.
SplitOnce(s, sep) ==
    LET i == FirstIndex(s, sep)
    IN  <<SubSeq(s, 1, i - 1), SubSeq(s, i + 1, Len(s))>>

\* sep.join(parts)
RECURSIVE Join(_, _)
Join(parts, sep) ==
    IF parts = <<>> THEN <<>>
    ELSE IF Len(parts) = 1 THEN parts[1]
    ELSE parts[1] \o sep \o Join(Tail(parts), sep)

(***************************************************************************)
(* Python's int() and number formatting                                    *)
(***************************************************************************)
RECURSIVE DigitsValue(_, _)
\* The value of a string of digits in the given base, most significant first.
DigitsValue(s, base) ==
    IF s = <<>> THEN 0
    ELSE DigitsValue(SubSeq(s, 1, Len(s) - 1), base) * base
         + HexDigitVal(s[Len(s)])

\* The digits of a number text with their separators taken out; the text
\* is well formed when it begins and ends with a digit of the base and no
\* two underscores are next to each other.
WithoutUnderscores(s) == SelectSeq(s, LAMBDA c : c # "_")

WellSeparated(s, base) ==
    /\ s # <<>>
    /\ s[1] # "_" /\ s[Len(s)] # "_"
    /\ \A i \in 1..Len(s) :
           \/ s[i] = "_" /\ s[i + 1] # "_"
           \/ IF base = 10 THEN IsDecDigit(s[i]) ELSE IsHexDigit(s[i])

\* The text of a number after its sign.
Unsigned(t) == IF t # <<>> /\ t[1] \in {"+", "-"} THEN Tail(t) ELSE t

\* With base 16 the digits may follow "0x" or "0X", and one underscore may
\* stand between that prefix and the first digit.
AfterPrefix(u, base) ==
    IF base = 16 /\ Len(u) >= 2 /\ u[1] = "0" /\ u[2] \in {"x", "X"}
    THEN IF Len(u) >= 3 /\ u[3] = "_" THEN SubSeq(u, 4, Len(u))
         ELSE SubSeq(u, 3, Len(u))
    ELSE u

Magnitude(digits, base) ==
    IF WellSeparated(digits, base)
    THEN [ok |-> TRUE, val |-> DigitsValue(WithoutUnderscores(digits), base)]
    ELSE [ok |-> FALSE, val |-> 0]

WithSign(m, negative) ==
    IF m.ok /\ negative THEN [ok |-> TRUE, val |-> 0 - m.val] ELSE m

\* int(s, base) for base 10 or 16: surrounding blanks, tabs, line ends, form
\* feeds and vertical tabs are skipped, one sign is
\* accepted, with base 16 a prefix 0x or 0X (an underscore may follow it),
\* then at least one digit of the base, with single underscores between the
\* digits.  ok is FALSE where Python raises ValueError.
PyInt(s, base) ==
    WithSign(Magnitude(AfterPrefix(Unsigned(StripOf(s, IntWhitespace)), base), base),
             StartsWith(StripOf(s, IntWhitespace), <<"-">>))

RECURSIVE NatDigits(_, _, _)
\* The digits of n >= 0 in the given base, no padding ("0" for zero).
NatDigits(n, base, alphabet) ==
    IF n < base THEN <<alphabet[n + 1]>>
    ELSE NatDigits(n \div base, base, alphabet) \o <<alphabet[(n % base) + 1]>>

\* f"{n:X}"
FormatHexUpper(n) ==
    IF n < 0 THEN <<"-">> \o NatDigits(0 - n, 16, HexDigitsUpper)
    ELSE NatDigits(n, 16, HexDigitsUpper)

\* f"{n}" and str(n)
FormatDec(n) ==
    IF n < 0 THEN <<"-">> \o NatDigits(0 - n, 10, DecDigits)
    ELSE NatDigits(n, 10, DecDigits)

\* f"{n:02d}": decimal, zero-padded to a width of at least 2 (the sign counts).
FormatDec02(n) ==
    LET d == FormatDec(n)
    IN  IF Len(d) >= 2 THEN d ELSE <<"0">> \o d

(***************************************************************************)
(* State.  Each tool is a program of its own: a specification runs one of  *)
(* them and leaves the variables of the others at rest.                    *)
(***************************************************************************)
\* The PCI path converter window (gui_pci_path_converter.py).
VARIABLES
    input_entry,    \* the text of the input field
    output_entry,   \* the text of the result field
    message,        \* the box the last handler showed: "none", "warning",
                    \* "error" or "info"
    clipboard,      \* the text of the clipboard
    typed,          \* the path the user typed (history, for the round trips)
    last,           \* what happened last: "none", "convert", "copy", "edit"
    hops            \* conversions done since the path was typed, counted
                    \* up to MaxHops

vars_path == <<input_entry, output_entry, message, clipboard, typed, last,
              hops>>

\* The hardware information tool (gui_get_hw_info.py, get_hw_info.py).
VARIABLES
    list_file,      \* device kind -> the lines of the support list of that kind
    loaded,         \* the lists have been loaded
    db_support,     \* device kind -> (key -> status)
    db_details,     \* device kind -> (key -> detail text)
    db_kext,        \* device kind -> (key -> required driver)
    last_kind,      \* the kind of the device of the last loop pass, or "none"
    tool,           \* the program that runs: "gui" or "cli"
    reached,        \* the number of devices the enumeration loops have passed
    scanned,        \* the descriptor or model name of the device last scanned
    query,      \* the identifier or name the lookup was given
    via,            \* the lookup that ran: "none", "id", "name", "cli", or "skipped"
    lookup,         \* what the lookup returned
    item            \* the row the tool shows for the device last scanned

vars_hw == <<list_file, loaded, db_support, db_details, db_kext, last_kind,
             tool, reached, scanned, query, via, lookup, item>>

\* The support-list editor (gui_edit_hw_support_info.py).
VARIABLES
    current_file,       \* main(): the name of the list file that is selected
    file_content,       \* the text of the selected list file on disk
    other_files,        \* list name -> the text on disk of a list file that is
                        \* not selected (empty at the place of the selected one)
    current_entries,    \* identifier -> [main, info, kext], in insertion order
    event,              \* main(): the event the loop handled last
    content,            \* main(): the text last read or generated by a handler
    errors,             \* main(): the errors of the last validation
    repairable_errors,  \* main(): the lines the last validation offers to delete
    window,             \* "main", "validate" (the modal dialog) or "closed"
    opened,             \* the text the selected list file had when it was selected
    ops,                \* the number of Save and Import operations so far
    popup,              \* the error the last handler reported, or "none"
    import_result       \* the import of the last handler, if it was one: its
                        \* options, its file and what show_import_result
                        \* was given, if it was called

vars_ed == <<current_file, file_content, other_files, current_entries, event, content, errors,
             repairable_errors, window, opened, ops, popup,
            import_result>>

\* The ACPI device helper (gui_acpi_exp.py).
VARIABLES
    location_path,      \* the selected device's location path (enumerator text)
    pci_converted,      \* show_location_details: what convert_pci_path gave
    acpi_converted,     \* show_location_details: what convert_acpi_path gave
    method,             \* the spoof dialog that is open, or "none"
    acpi_path,          \* the ACPI path the open dialog works on
    device_id_input,    \* the text of the dialog's device id field
    model_input,        \* the text of the dialog's display name field
    build               \* what the last build_gpu_spoof_ssdt did

vars_acpi == <<location_path, pci_converted, acpi_converted, method, acpi_path,
               device_id_input, model_input, build>>

\* The device list of the ACPI helper and its loader threads
\* (gui_acpi_exp.py, DeviceLoaderThread and DeviceLocationViewer).
VARIABLES
    loaders,        \* the loader threads started so far, the last one is loader_thread
    cache_file,     \* what device_cache.json holds
    devices,        \* DeviceLocationViewer.devices
    signals,        \* the data_loaded signals that are queued for the window
    viewer,         \* the window: "open" or "closed"
    handler         \* the place of the window's thread: "idle" (in the event
                    \* loop) or a place inside refresh_data or closeEvent

vars_loader == <<loaders, cache_file, devices, signals, viewer, handler>>

\* The USB customizer (gui_usb_customizer.py, USBCustomizerApp).
VARIABLES
    running,        \* USBCustomizerApp.running
    stop_requested, \* USBCustomizerApp.stop_requested
    proc,           \* USBCustomizerApp.proc: 0 for None, or the number of the
                    \* worker that started the process it refers to
    workers,        \* the threads that run run_customization, in start order
    start_btn,      \* the start button can be pressed (state NORMAL)
    stop_btn,       \* the stop button can be pressed
    after_queue,    \* the callbacks given to root.after(0, ...), in order
    frames,         \* the handlers of the main thread that wait in the
                    \* root.update() of log(), the innermost last
    clicks          \* the number of presses of the two buttons that were
                    \* not refused

vars_usb == <<running, stop_requested, proc, workers, start_btn, stop_btn,
              after_queue, frames, clicks>>

vars == <<vars_path, vars_hw, vars_ed, vars_acpi, vars_loader, vars_usb>>

\* The variables of the other tools.
others_hw == <<vars_path, vars_ed, vars_acpi, vars_loader, vars_usb>>
others_path == <<vars_hw, vars_ed, vars_acpi, vars_loader, vars_usb>>
others_ed == <<vars_path, vars_hw, vars_acpi, vars_loader, vars_usb>>
others_acpi == <<vars_path, vars_hw, vars_ed, vars_loader, vars_usb>>
others_loader == <<vars_path, vars_hw, vars_ed, vars_acpi, vars_usb>>
others_usb == <<vars_path, vars_hw, vars_ed, vars_acpi, vars_loader>>

(***************************************************************************)
(* The PCI path converter (gui_pci_path_converter.py)                      *)
(*                                                                         *)
(* A conversion returns [ok, val]: ok is FALSE where the code raises, and  *)
(* val is then empty.                                                      *)
(***************************************************************************)

Failed == [ok |-> FALSE, val |-> <<>>]
Done(s) == [ok |-> TRUE, val |-> s]

\* One '#'-separated part of an enumerator path, converted.
WindowsPartToDp(part) ==
    IF StartsWith(part, <<"P","C","I","R","O","O","T","(">>)
    THEN LET num == PyInt(SliceDropLast(part, 8), 10)
         IN  IF num.ok
             THEN Done(<<"P","c","i","R","o","o","t","(","0","x">>
                       \o FormatHexUpper(num.val) \o <<")">>)
             ELSE Failed
    ELSE IF StartsWith(part, <<"P","C","I","(">>)
    THEN LET hex_str == SliceDropLast(part, 4)
             dev == PyInt(Slice(hex_str, 0, 2), 16)
             func == PyInt(SliceFrom(hex_str, 2), 16)
         IN  IF Len(hex_str) # 4 THEN Failed
             ELSE IF ~dev.ok \/ ~func.ok THEN Failed
             ELSE Done(<<"P","c","i","(","0","x">> \o FormatHexUpper(dev.val)
                       \o <<",","0","x">> \o FormatHexUpper(func.val)
                       \o <<")">>)
    ELSE Failed

\* Enumerator notation to firmware device-path notation.
convert_windows_to_dp(windows_path) ==
    LET parts == Split(windows_path, "#")
        dp_parts == [i \in 1..Len(parts) |-> WindowsPartToDp(parts[i])]
    IN  IF \A i \in 1..Len(parts) : dp_parts[i].ok
        THEN Done(Join([i \in 1..Len(parts) |-> dp_parts[i].val], <<"/">>))
        ELSE Failed

\* The length of the longest run of hex digits of s that starts right after
\* its first `from` characters: what [0-9A-Fa-f]+ consumes there.
HexRun(s, from) ==
    IF from >= Len(s) \/ ~IsHexDigit(s[from + 1]) THEN 0
    ELSE LET ends == {k \in 1..(Len(s) - from) :
                         \A j \in 1..k : IsHexDigit(s[from + j])}
         IN  CHOOSE k \in ends : \A m \in ends : m <= k

\* re.match(r"PciRoot\(0x([0-9A-Fa-f]+)\)", part): the group, or no match.
\* The pattern is anchored at the start of the part only.
MatchPciRoot(part) ==
    LET prefix == <<"P","c","i","R","o","o","t","(","0","x">>
        r == HexRun(part, Len(prefix))
    IN  IF StartsWith(part, prefix) /\ r >= 1
           /\ Len(part) > Len(prefix) + r
           /\ part[Len(prefix) + r + 1] = ")"
        THEN Done(Slice(part, Len(prefix), Len(prefix) + r))
        ELSE Failed

\* re.match(r"Pci\(0x([0-9A-Fa-f]+),0x([0-9A-Fa-f]+)\)", part): the two
\* groups, or no match.
MatchPci(part) ==
    LET prefix == <<"P","c","i","(","0","x">>
        r1 == HexRun(part, Len(prefix))
        mid == Len(prefix) + r1
        r2 == HexRun(part, mid + 3)
    IN  IF StartsWith(part, prefix) /\ r1 >= 1
           /\ Slice(part, mid, mid + 3) = <<",","0","x">>
           /\ r2 >= 1
           /\ Len(part) > mid + 3 + r2
           /\ part[mid + 3 + r2 + 1] = ")"
        THEN Done(<<Slice(part, Len(prefix), mid),
                    Slice(part, mid + 3, mid + 3 + r2)>>)
        ELSE Failed

\* One '/'-separated part of a firmware device path, converted.
DpPartToWindows(part) ==
    IF StartsWith(part, <<"P","c","i","R","o","o","t","(">>)
    THEN LET match == MatchPciRoot(part)
         IN  IF ~match.ok THEN Failed
             ELSE Done(<<"P","C","I","R","O","O","T","(">>
                       \o FormatDec(PyInt(match.val, 16).val) \o <<")">>)
    ELSE IF StartsWith(part, <<"P","c","i","(">>)
    THEN LET match == MatchPci(part)
         IN  IF ~match.ok THEN Failed
             ELSE LET dev == PyInt(match.val[1], 16).val
                      func == PyInt(match.val[2], 16).val
                  IN  Done(<<"P","C","I","(">> \o FormatDec02(dev)
                           \o FormatDec02(func) \o <<")">>)
    ELSE Failed

\* Firmware device-path notation to enumerator notation.
convert_dp_to_windows(dp_path) ==
    LET parts == Split(dp_path, "/")
        windows_parts == [i \in 1..Len(parts) |-> DpPartToWindows(parts[i])]
    IN  IF \A i \in 1..Len(parts) : windows_parts[i].ok
        THEN Done(Join([i \in 1..Len(parts) |-> windows_parts[i].val],
                       <<"#">>))
        ELSE Failed

\* The paths the model types into the converter.
MaxSegs == 2
RootIndexes == {0, 1, 10}
\* The two bytes of a PCI segment: small, ten and above, two-digit and
\* three-digit in decimal.
PciPairs == {<<0, 0>>, <<1, 0>>, <<10, 0>>, <<28, 4>>, <<100, 9>>, <<255, 255>>}

SegLists == UNION {[1..k -> PciPairs] : k \in 0..MaxSegs}

\* A byte as exactly two uppercase hex digits.
TwoHex(b) == <<HexDigitsUpper[(b \div 16) + 1], HexDigitsUpper[(b % 16) + 1]>>

\* PCIROOT(n)#PCI(xxyy)#...
WinPathText(n, segs) ==
    Join(<<<<"P","C","I","R","O","O","T","(">> \o FormatDec(n) \o <<")">>>>
         \o [i \in 1..Len(segs) |->
                <<"P","C","I","(">> \o TwoHex(segs[i][1])
                \o TwoHex(segs[i][2]) \o <<")">>],
         <<"#">>)

\* PciRoot(0xN)/Pci(0xA,0xB)/... in canonical uppercase hex.
DpPathText(n, segs) ==
    Join(<<<<"P","c","i","R","o","o","t","(","0","x">>
           \o FormatHexUpper(n) \o <<")">>>>
         \o [i \in 1..Len(segs) |->
                <<"P","c","i","(","0","x">> \o FormatHexUpper(segs[i][1])
                \o <<",","0","x">> \o FormatHexUpper(segs[i][2]) \o <<")">>],
         <<"/">>)

WinPathInputs == {WinPathText(n, segs) : n \in RootIndexes, segs \in SegLists}
DpPathInputs == {DpPathText(n, segs) : n \in RootIndexes, segs \in SegLists}

\* Inputs the converter refuses, and one it has to trim first.
OddPathInputs ==
    { <<>>,
      <<" ">>,
      <<"A","C","P","I","(","_","S","B","_",")">>,
      <<"P","C","I","R","O","O","T","(","0",")","#","P","C","I","(","0","1","0",")">>,
      <<"P","C","I","R","O","O","T","(","0",")","#","A","C","P","I","(","P","C","I","0",")">>,
      <<"P","c","i","R","o","o","t","(","0","x","0",")","/","P","c","i","(","1",",","0",")">>,
      <<"P","C","I","R","O","O","T","(","0",")","#","P","C","I","(","0","1","0","0","]">>,
      <<"P","c","i","R","o","o","t","(","0","x","0",")","/","P","c","i","(","0","x","1",",","0","x","0",")","j","u","n","k">>,
      <<"P","C","I","R","O","O","T","(","0",")","#","P","C","I","(","0","G","0","0",")">>,
      <<" ","P","C","I","R","O","O","T","(","0",")"," ">>,
      <<"P","C","I","R","O","O","T","(","1","_","0",")","#","P","C","I","(","0","1","0","0",")">>,
      <<"\f","P","C","I","R","O","O","T","(","0",")">>,
      <<VT,"P","C","I","R","O","O","T","(","0",")",US>>,
      <<"P","C","I","R","O","O","T","(",VT,"0",")","#","P","C","I","(","0","1","0","0",")">>,
      <<"P","C","I","R","O","O","T","(",FS,"0",")">> }

PathInputs == WinPathInputs \cup DpPathInputs \cup OddPathInputs

MaxHops == 3

InitPath ==
    /\ input_entry \in PathInputs
    /\ output_entry = <<>>
    /\ message = "none"
    /\ clipboard = <<>>
    /\ typed = input_entry
    /\ last = "none"
    /\ hops = 0

\* The state of the converter window while another tool is being used.
IdlePath ==
    /\ input_entry = <<>>
    /\ output_entry = <<>>
    /\ message = "none"
    /\ clipboard = <<>>
    /\ typed = <<>>
    /\ last = "none"
    /\ hops = 0

\* The "convert" button.
ConvertPciPath ==
    /\ hops' = IF hops < MaxHops THEN hops + 1 ELSE hops
    /\ last' = "convert"
    /\ LET input_text == Strip(input_entry)
           result == IF StartsWith(input_text, <<"P","C","I","R","O","O","T">>)
                     THEN convert_windows_to_dp(input_text)
                     ELSE IF StartsWith(input_text, <<"P","c","i","R","o","o","t">>)
                     THEN convert_dp_to_windows(input_text)
                     ELSE Failed
       IN  IF input_text = <<>>
           THEN message' = "warning" /\ output_entry' = output_entry
           ELSE IF result.ok
           THEN message' = "none" /\ output_entry' = result.val
           ELSE message' = "error" /\ output_entry' = output_entry
    /\ UNCHANGED <<input_entry, clipboard, typed>>
    /\ UNCHANGED others_path

\* The "copy" button: the clipboard takes the text of the result field,
\* whatever it is, and an information box is shown.
CopyToClipboard ==
    /\ clipboard' = output_entry
    /\ message' = "info"
    /\ last' = "copy"
    /\ UNCHANGED <<input_entry, output_entry, typed, hops>>
    /\ UNCHANGED others_path

\* The user replaces the text of the input field by the text of the
\* clipboard.  No handler runs: the field is a plain entry widget.
EditInput ==
    /\ input_entry # clipboard
    /\ input_entry' = clipboard
    /\ last' = "edit"
    /\ UNCHANGED <<output_entry, message, clipboard, typed, hops>>
    /\ UNCHANGED others_path

NextPath == ConvertPciPath \/ CopyToClipboard \/ EditInput

(***************************************************************************)
(* The hardware information tool (gui_get_hw_info.py, get_hw_info.py)      *)
(*                                                                         *)
(* A dict is a sequence of <<key, value>> pairs in insertion order: a      *)
(* store under a key that is present keeps the key's place.                *)
(***************************************************************************)
DictHas(d, k) == \E i \in 1..Len(d) : d[i][1] = k

DictIndex(d, k) == CHOOSE i \in 1..Len(d) : d[i][1] = k

\* d.get(k, default), and d[k] for a key that is present
DictGet(d, k, default) == IF DictHas(d, k) THEN d[DictIndex(d, k)][2] ELSE default

\* d[k] = v
DictPut(d, k, v) ==
    IF DictHas(d, k)
    THEN [d EXCEPT ![DictIndex(d, k)] = <<k, v>>]
    ELSE Append(d, <<k, v>>)

\* The fixed texts of the code: "未知", "无", "未知(模糊匹配)",
\* "未知(厂商通用支持)", "N/A" and the two ends of f"支持({key})".
DetailUnknown == <<"detail-unknown">>
KextNone == <<"kext-none">>
DetailFuzzy == <<"detail-unknown-fuzzy-match">>
DetailWildcard == <<"detail-unknown-vendor-match">>
IdNotAvailable == <<"N/A">>
SupportedBy(key) == <<"supported(">> \o key \o <<")">>

DotInfo == <<".","i","n","f","o">>
DotKext == <<".","k","e","x","t">>

\* One iteration of the loop of load_support_info: one raw line of the
\* file stored into db = [support, details, kext].
LoadLine(db, raw) ==
    LET line == Strip(raw)
    IN  IF line # <<>> /\ HasChar(line, "=")
        THEN LET key == SplitOnce(line, "=")[1]
                 value == SplitOnce(line, "=")[2]
             IN  IF EndsWith(key, DotInfo)
                 THEN [db EXCEPT !.details =
                          DictPut(@, Upper(Slice(key, 0, Len(key) - 5)), value)]
                 ELSE IF EndsWith(key, DotKext)
                 THEN [db EXCEPT !.kext =
                          DictPut(@, Upper(Slice(key, 0, Len(key) - 5)), value)]
                 ELSE [db EXCEPT !.support = DictPut(@, Upper(key), value)]
        ELSE db

EmptyDb == [support |-> <<>>, details |-> <<>>, kext |-> <<>>]

RECURSIVE LoadLines(_, _)
LoadLines(db, lines) ==
    IF lines = <<>> THEN db
    ELSE LoadLines(LoadLine(db, Head(lines)), Tail(lines))

\* load_support_info: the three maps of a list file, given as its lines.
load_support_info(lines) == LoadLines(EmptyDb, lines)

\* re.search(tag + r'([0-9A-F]{4})', s, re.IGNORECASE).group(1) for a tag
\* such as VEN_: the four hex digits after the leftmost match, as written
\* in s, or no match.
SearchToken(s, tag) ==
    LET hits == {i \in 0..(Len(s) - Len(tag) - 4) :
                    /\ Upper(Slice(s, i, i + Len(tag))) = tag
                    /\ \A j \in 1..4 : IsHexDigit(s[i + Len(tag) + j])}
    IN  IF hits = {} THEN Failed
        ELSE LET i == CHOOSE h \in hits : \A g \in hits : h <= g
             IN  Done(Slice(s, i + Len(tag), i + Len(tag) + 4))

\* extract_hardware_ids: VEN and DEV of a PNPDeviceID as VVVV&DDDD, or "".
extract_hardware_ids(pnp_id) ==
    LET ven_match == SearchToken(pnp_id, <<"V","E","N","_">>)
        dev_match == SearchToken(pnp_id, <<"D","E","V","_">>)
    IN  IF pnp_id = <<>> THEN <<>>
        ELSE IF ven_match.ok /\ dev_match.ok
        THEN ven_match.val \o <<"&">> \o dev_match.val
        ELSE <<>>

MatchResult(status, id, detail, kext, match_type) ==
    [status |-> status, id |-> id, detail |-> detail, kext |-> kext,
     match_type |-> match_type, raised |-> FALSE]

\* The call ended in an exception (the unpacking of split('&') failed).
MatchRaised ==
    [status |-> None, id |-> None, detail |-> None, kext |-> None,
     match_type |-> "None", raised |-> TRUE]

\* A variant that reports the key that produced the hit.
ReportedIdHitKey(asked, hit_key) == hit_key

\* The second element of the tuple a fuzzy or wildcard hit returns: the
\* query the caller passed, whatever key produced the hit.
ReportedId(asked, hit_key) == asked

\* A variant whose fuzzy tier looks for the whole key, '*' included.
NameTierHitsKeepsStar(d, device_name, tier) ==
    LET hit(key) ==
            IF tier = "fuzzy"
            THEN StartsWith(key, <<"*">>)
                 /\ Contains(device_name, Upper(key))
            ELSE ~StartsWith(key, <<"*">>)
                 /\ Contains(device_name, Upper(key))
    IN  {i \in 1..Len(d) : hit(d[i][1])}

\* The keys of d, in order, that satisfy the name tier: tier "fuzzy" is a
\* key that starts with '*' and whose rest, upper-cased, is in the name;
\* tier "wildcard" is a key without the '*' that, upper-cased, is in it.
NameTierHits(d, device_name, tier) ==
    LET hit(key) ==
            IF tier = "fuzzy"
            THEN StartsWith(key, <<"*">>)
                 /\ Contains(device_name, Upper(SliceFrom(key, 1)))
            ELSE ~StartsWith(key, <<"*">>)
                 /\ Contains(device_name, Upper(key))
    IN  {i \in 1..Len(d) : hit(d[i][1])}

\* The is_hdd branch: resolution of a device name.
MultimatchName(name, support_info, details_info, kext_info) ==
    LET device_name == Upper(name)
        fuzzy == NameTierHits(support_info, device_name, "fuzzy")
        wild == NameTierHits(support_info, device_name, "wildcard")
        first(hits) == CHOOSE i \in hits : \A j \in hits : i <= j
        hitKey(hits) == support_info[first(hits)][1]
    IN  IF DictHas(support_info, device_name)
        THEN MatchResult(DictGet(support_info, device_name, None), device_name,
                         DictGet(details_info, device_name, DetailUnknown),
                         DictGet(kext_info, device_name, KextNone), "exact")
        ELSE IF fuzzy # {}
        THEN MatchResult(support_info[first(fuzzy)][2],
                         ReportedId(device_name, hitKey(fuzzy)),
                         DictGet(details_info, hitKey(fuzzy),
                                 SupportedBy(hitKey(fuzzy))),
                         DictGet(kext_info, hitKey(fuzzy), KextNone), "fuzzy")
        ELSE IF wild # {}
        THEN MatchResult(support_info[first(wild)][2],
                         ReportedId(device_name, hitKey(wild)),
                         DictGet(details_info, hitKey(wild),
                                 SupportedBy(hitKey(wild))),
                         DictGet(kext_info, hitKey(wild), KextNone), "wildcard")
        ELSE MatchResult(None, device_name, DetailUnknown, KextNone, "None")

\* A variant that keeps three digits of the device half.
FuzzyIdKeepsThree(ven_id, dev_id) ==
    ven_id \o <<"&">> \o Slice(dev_id, 0, 3) \o <<"F">>

\* f"{ven_id}&{dev_id[:2]}FF"
FuzzyId(ven_id, dev_id) == ven_id \o <<"&">> \o Slice(dev_id, 0, 2) \o <<"F","F">>

\* f"{ven_id}&FFFF"
WildcardId(ven_id) == ven_id \o <<"&","F","F","F","F">>

\* A variant that looks the identifier up without the tests for an empty
\* one and for one without '&'.
MultimatchIdWithoutEarlyReturn(device_id, support_info, details_info, kext_info) ==
    IF DictHas(support_info, device_id)
    THEN MatchResult(DictGet(support_info, device_id, None), device_id,
                     DictGet(details_info, device_id, DetailUnknown),
                     DictGet(kext_info, device_id, KextNone), "exact")
    ELSE MatchResult(None, device_id, DetailUnknown, KextNone, "None")

\* The else branch: resolution of a VVVV&DDDD identifier.
MultimatchId(device_id, support_info, details_info, kext_info) ==
    LET halves == Split(device_id, "&")
        ven_id == halves[1]
        dev_id == halves[2]
        fuzzy_id == FuzzyId(ven_id, dev_id)
        wildcard_id == WildcardId(ven_id)
    IN  IF device_id = <<>>
        THEN MatchResult(None, IdNotAvailable, DetailUnknown, KextNone, "None")
        ELSE IF ~HasChar(device_id, "&")
        THEN MatchResult(None, device_id, DetailUnknown, KextNone, "None")
        ELSE IF Len(halves) # 2 THEN MatchRaised
        ELSE IF DictHas(support_info, device_id)
        THEN MatchResult(DictGet(support_info, device_id, None), device_id,
                         DictGet(details_info, device_id, DetailUnknown),
                         DictGet(kext_info, device_id, KextNone), "exact")
        ELSE IF DictHas(support_info, fuzzy_id)
        THEN MatchResult(DictGet(support_info, fuzzy_id, None),
                         ReportedId(device_id, fuzzy_id),
                         DictGet(details_info, fuzzy_id, DetailFuzzy),
                         DictGet(kext_info, fuzzy_id, KextNone), "fuzzy")
        ELSE IF DictHas(support_info, wildcard_id)
        THEN MatchResult(DictGet(support_info, wildcard_id, None),
                         ReportedId(device_id, wildcard_id),
                         DictGet(details_info, wildcard_id, DetailWildcard),
                         DictGet(kext_info, wildcard_id, KextNone), "wildcard")
        ELSE MatchResult(None, device_id, DetailUnknown, KextNone, "None")

\* get_support_info_with_multimatch of the window.
get_support_info_with_multimatch(device_id_or_name, support_info, details_info, kext_info, is_hdd) ==
    IF is_hdd
    THEN MultimatchName(device_id_or_name, support_info, details_info, kext_info)
    ELSE MultimatchId(device_id_or_name, support_info, details_info, kext_info)

\* get_support_info of the command-line tool: one direct lookup.
get_support_info(device_id, support_info, details_info, kext_info) ==
    IF device_id = <<>>
    THEN MatchResult(None, IdNotAvailable, DetailUnknown, KextNone, "None")
    ELSE MatchResult(DictGet(support_info, device_id, None), device_id,
                     DictGet(details_info, device_id, DetailUnknown),
                     DictGet(kext_info, device_id, KextNone), "None")

\* The lines a GPU list (identifier keys) is made of.
IdLines ==
    { <<"1","0","0","2","&","6","7","D","F","=","1">>,
      <<VT,"1","0","0","2","&","6","7","F","F","=","0","\f",RS>>,
      <<"1","0","0","2","&","F","F","F","F","=","2">>,
      <<"1","0","d","e","&","1","c","8","2","="," ","1">>,
      <<"1","0","0","2","&","6","7","F","F",".","i","n","f","o","=","x">>,
      <<"#"," ","5","5","5","5","&","F","F","F","F","=","1">>,
      <<"1","0","0","2","&","6","7","A","A","=">>,
      <<"=","1">>,
      <<"B","A","D","L","I","N","E"," ">> }

\* The lines a disk list (name keys) is made of.
NameLines ==
    { <<"W","D","=","1">>,
      <<"*","S","N","=","0">>,
      <<"*","w","d","=","1">>,
      <<"S","N","7","=","0">>,
      <<"w","d"," ","s","n","7","=","1">> }

MaxListLines == 3

\* The sequences of at most n different elements of S.
RECURSIVE DistinctSeqs(_, _)
DistinctSeqs(S, n) ==
    IF n = 0 THEN {<<>>}
    ELSE LET shorter == DistinctSeqs(S, n - 1)
         IN  shorter
             \cup UNION {{Append(q, x) : x \in S \ Range(q)} : q \in shorter}

ListFiles == DistinctSeqs(IdLines, MaxListLines)
             \cup DistinctSeqs(NameLines, MaxListLines)

\* The kinds of device; each has a support list of its own:
\* GPUSupportInfo.list, HDASupportInfo.list, ETHSupportInfo.list and
\* HDSupportInfo.list.
Kinds == {"gpu", "sound", "nic", "disk"}

\* The lists a tool reads: the command-line tool has no disk list.
ListsRead(t) == IF t = "gui" THEN Kinds ELSE Kinds \ {"disk"}

\* One set of four lists that differ from each other.
OtherLists ==
    [k \in Kinds |->
        CASE k = "gpu" -> << <<"1","0","0","2","&","6","7","D","F","=","1">> >>
          [] k = "sound" -> << <<"1","0","0","2","&","6","7","D","F","=","0">>,
                               <<"1","0","D","E","&","F","F","F","F","=","1">> >>
          [] k = "nic" -> <<>>
          [] k = "disk" -> << <<"*","S","N","=","0">> >>]

\* The four lists of a run: the list of the video controllers or the list
\* of the disk drives is any of ListFiles, the others are as in OtherLists.
ListAssignments ==
    UNION {{[OtherLists EXCEPT ![k] = l] : l \in ListFiles} : k \in {"gpu", "disk"}}

NoLists == [k \in Kinds |-> <<>>]

\* Device descriptors that hold a VEN_ and a DEV_ token, with the halves of
\* the identifier each was built from.
PnpTable ==
    { [text |-> <<"P","C","I","\\","V","E","N","_","1","0","0","2","&","D","E","V","_","6","7","D","F","&","S","U","B","S","Y","S","_","0","B","3","7","1","0","0","2">>,
       ven |-> <<"1","0","0","2">>, dev |-> <<"6","7","D","F">>],
      [text |-> <<"P","C","I","\\","V","E","N","_","1","0","0","2","&","D","E","V","_","6","7","A","A">>,
       ven |-> <<"1","0","0","2">>, dev |-> <<"6","7","A","A">>],
      [text |-> <<"P","C","I","\\","V","E","N","_","1","0","0","2","&","D","E","V","_","9","9","9","9">>,
       ven |-> <<"1","0","0","2">>, dev |-> <<"9","9","9","9">>],
      [text |-> <<"p","c","i","\\","v","e","n","_","1","0","0","2","&","d","e","v","_","6","7","d","f">>,
       ven |-> <<"1","0","0","2">>, dev |-> <<"6","7","d","f">>],
      [text |-> <<"P","C","I","\\","V","E","N","_","1","0","D","E","&","D","E","V","_","1","C","8","2">>,
       ven |-> <<"1","0","D","E">>, dev |-> <<"1","C","8","2">>],
      [text |-> <<"P","C","I","\\","V","E","N","_","5","5","5","5","&","D","E","V","_","0","0","0","0">>,
       ven |-> <<"5","5","5","5">>, dev |-> <<"0","0","0","0">>] }

\* Descriptors without a 4-digit VEN_ and DEV_ token.
PnpWithoutId ==
    { <<>>,
      <<"P","C","I","\\","V","E","N","_","1","0","0","2","&","D","E","V","_","6","7","D">>,
      <<"U","S","B","\\","V","I","D","_","1","0","0","2","&","P","I","D","_","6","7","D","F">> }

\* What the machine's enumerator reports, in enumeration order: the video
\* controllers, sound devices and network adapters with their names and
\* descriptors, and the disk drives' model names.
VideoControllers ==
    <<
       [name |-> <<"G","P","U">>,
        pnp |-> <<"P","C","I","\\","V","E","N","_","1","0","0","2","&","D","E","V","_","6","7","D","F","&","S","U","B","S","Y","S","_","0","B","3","7","1","0","0","2">>],
       [name |-> <<"G","P","U">>,
        pnp |-> <<"P","C","I","\\","V","E","N","_","1","0","0","2","&","D","E","V","_","6","7","A","A">>],
       [name |-> <<"M","i","c","r","o","s","o","f","t"," ","B","a","s","i","c"," ","D","i","s","p","l","a","y"," ","D","r","i","v","e","r">>,
        pnp |-> <<"P","C","I","\\","V","E","N","_","1","0","0","2","&","D","E","V","_","6","7","D","F">>],
       [name |-> <<"G","P","U">>,
        pnp |-> <<"P","C","I","\\","V","E","N","_","1","0","0","2","&","D","E","V","_","9","9","9","9">>],
       [name |-> <<"G","P","U">>,
        pnp |-> <<"p","c","i","\\","v","e","n","_","1","0","0","2","&","d","e","v","_","6","7","d","f">>],
       [name |-> <<" ","M","i","c","r","o","s","o","f","t"," ","B","a","s","i","c"," ","D","i","s","p","l","a","y"," ","D","r","i","v","e","r"," ">>,
        pnp |-> <<"P","C","I","\\","V","E","N","_","1","0","D","E","&","D","E","V","_","1","C","8","2">>],
       [name |-> <<"M","i","c","r","o","s","o","f","t"," ","B","a","s","i","c"," ","D","i","s","p","l","a","y"," ","D","r","i","v","e","r"," ","2">>,
        pnp |-> <<"P","C","I","\\","V","E","N","_","1","0","D","E","&","D","E","V","_","1","C","8","2">>],
       [name |-> <<"G","P","U">>,
        pnp |-> <<"P","C","I","\\","V","E","N","_","5","5","5","5","&","D","E","V","_","0","0","0","0">>],
       [name |-> <<"\f",VT,"M","i","c","r","o","s","o","f","t"," ","B","a","s","i","c"," ","D","i","s","p","l","a","y"," ","D","r","i","v","e","r",US,"\t">>,
        pnp |-> <<"P","C","I","\\","V","E","N","_","5","5","5","5","&","D","E","V","_","0","0","0","0">>],
       [name |-> <<"G","P","U">>,
        pnp |-> <<>>],
       [name |-> <<"G","P","U">>,
        pnp |-> <<"P","C","I","\\","V","E","N","_","1","0","0","2","&","D","E","V","_","6","7","D">>],
       [name |-> <<"G","P","U">>,
        pnp |-> <<"U","S","B","\\","V","I","D","_","1","0","0","2","&","P","I","D","_","6","7","D","F">>] >>

SoundDevices ==
    <<
       [name |-> <<"M","i","c","r","o","s","o","f","t"," ","B","a","s","i","c"," ","D","i","s","p","l","a","y"," ","D","r","i","v","e","r">>,
        pnp |-> <<"P","C","I","\\","V","E","N","_","1","0","0","2","&","D","E","V","_","6","7","D","F">>] >>

NetworkAdapters ==
    <<
       [name |-> <<"N","I","C">>,
        pnp |-> <<"P","C","I","\\","V","E","N","_","1","0","0","2","&","D","E","V","_","6","7","A","A">>] >>

DiskDrives ==
    << <<"W","D"," ","S","N","7">>,
       <<"w","d"," ","s","n","7","7","0">>,
       <<VT,"K","X",FS>>,
       <<"S","N">> >>

Device(kind, name, text) == [kind |-> kind, name |-> name, text |-> text]

Devices(kind, reported) ==
    [i \in 1..Len(reported) |-> Device(kind, reported[i].name, reported[i].pnp)]

\* The window looks up the disks, then the video controllers, the sound
\* devices and the network adapters; the command-line tool looks up the
\* last three only.
\* The devices the command-line tool's loops pass, in order.
CliDevices ==
    Devices("gpu", VideoControllers)
    \o Devices("sound", SoundDevices)
    \o Devices("nic", NetworkAdapters)

\* The devices the window's loops pass, in order: the disk drives first.
GuiDevices ==
    [i \in 1..Len(DiskDrives) |-> Device("disk", DiskDrives[i], DiskDrives[i])]
    \o CliDevices

DevicesOf(t) == IF t = "gui" THEN GuiDevices ELSE CliDevices

\* The device the next loop pass looks at.
NextDevice == DevicesOf(tool)[reached + 1]

\* The names of the video controllers both tools leave out.
LeftOutNames == {<<"M","i","c","r","o","s","o","f","t"," ","B","a","s","i","c"," ","D","i","s","p","l","a","y"," ","D","r","i","v","e","r">>}

\* The test at the head of the loop over the video controllers; the loops
\* over the sound devices and the network adapters have none.
LeftOut(device) == device.kind = "gpu" /\ Strip(device.name) \in LeftOutNames

NoResult == MatchResult(None, None, None, None, "None")

\* The status column of a row: the text shown, the colour it is shown in,
\* and the stored status the row carries (raw_status).
Item(status_text, colour, raw_status) ==
    [status |-> status_text, colour |-> colour, raw_status |-> raw_status]

NoItem == Item("none", "none", None)

\* A variant that shows every stored status other than "1" as unsupported.
StatusTextTwoWay(status, match_type) ==
    IF status = <<"1">>
    THEN CASE match_type = "exact" -> "supported (exact match)"
           [] match_type = "fuzzy" -> "supported (fuzzy match)"
           [] match_type = "wildcard" -> "supported (vendor match)"
           [] OTHER -> "supported"
    ELSE IF status # None THEN "unsupported"
    ELSE "unknown"

\* The status text the window computes from a lookup result.
StatusText(status, match_type) ==
    IF status = <<"1">>
    THEN CASE match_type = "exact" -> "supported (exact match)"
           [] match_type = "fuzzy" -> "supported (fuzzy match)"
           [] match_type = "wildcard" -> "supported (vendor match)"
           [] OTHER -> "supported"
    ELSE IF status = <<"0">> THEN "unsupported"
    ELSE "unknown"

\* The colour of the window's status label.
LabelColour(status, match_type) ==
    IF status = <<"1">>
    THEN CASE match_type = "exact" -> "green"
           [] match_type = "fuzzy" -> "orange"
           [] match_type = "wildcard" -> "gold"
           [] OTHER -> "default"
    ELSE IF status = <<"0">> THEN "red"
    ELSE "grey"

\* The item the window's loop appends and the label made from it.
WindowItem(status, match_type) ==
    Item(StatusText(status, match_type), LabelColour(status, match_type), status)

\* colorize_text of the command-line tool: the colour for a status.
colorize_text(status) ==
    IF status = None THEN "grey"
    ELSE IF status = <<"1">> THEN "green"
    ELSE IF status = <<"0">> THEN "red"
    ELSE "yellow"

\* The row the command-line tool prints; it is coloured by the stored
\* status.
PrintedRow(status) ==
    Item(IF status = <<"1">> THEN "supported"
         ELSE IF status = <<"0">> THEN "unsupported" ELSE "unknown",
         colorize_text(status), status)

InitHw ==
    /\ list_file \in ListAssignments
    /\ loaded = FALSE
    /\ db_support = NoLists
    /\ db_details = NoLists
    /\ db_kext = NoLists
    /\ last_kind = "none"
    /\ tool \in {"gui", "cli"}
    /\ reached = 0
    /\ scanned = <<>>
    /\ query = <<>>
    /\ via = "none"
    /\ lookup = NoResult
    /\ item = NoItem

\* The state of the hardware tool while another tool is being used.
IdleHw ==
    /\ list_file = NoLists
    /\ loaded = FALSE
    /\ db_support = NoLists
    /\ db_details = NoLists
    /\ db_kext = NoLists
    /\ last_kind = "none"
    /\ tool = "gui"
    /\ reached = 0
    /\ scanned = <<>>
    /\ query = <<>>
    /\ via = "none"
    /\ lookup = NoResult
    /\ item = NoItem

\* get_hardware_data and the command-line tool read the lists, one per
\* kind of device, before they look at any device.
LoadSupportInfo ==
    /\ ~loaded
    /\ LET db == [k \in Kinds |->
                     IF k \in ListsRead(tool) THEN load_support_info(list_file[k])
                     ELSE load_support_info(<<>>)]
       IN  /\ db_support' = [k \in Kinds |-> db[k].support]
           /\ db_details' = [k \in Kinds |-> db[k].details]
           /\ db_kext' = [k \in Kinds |-> db[k].kext]
    /\ loaded' = TRUE
    /\ UNCHANGED <<list_file, last_kind, tool, reached, scanned, query, via, lookup,
                   item>>
    /\ UNCHANGED others_hw

\* One pass of one of the window's loops over the video controllers, the
\* sound devices and the network adapters; the lookup reads the maps of the
\* device's kind.  A video controller that is left out gets no lookup and
\* no item.
ScanDevice ==
    /\ loaded /\ tool = "gui"
    /\ reached < Len(DevicesOf(tool)) /\ NextDevice.kind \in {"gpu", "sound", "nic"}
    /\ IF LeftOut(NextDevice)
       THEN /\ via' = "skipped"
            /\ item' = NoItem
            /\ UNCHANGED <<scanned, query, lookup>>
       ELSE /\ LET pnp_id == NextDevice.text
                   id == extract_hardware_ids(pnp_id)
               IN  /\ scanned' = pnp_id
                   /\ query' = id
                   /\ lookup' = get_support_info_with_multimatch(
                                    id, db_support[NextDevice.kind],
                                    db_details[NextDevice.kind],
                                    db_kext[NextDevice.kind], FALSE)
            /\ item' = WindowItem(lookup'.status, lookup'.match_type)
            /\ via' = "id"
    /\ last_kind' = NextDevice.kind
    /\ reached' = reached + 1
    /\ UNCHANGED <<list_file, loaded, db_support, db_details, db_kext, tool>>
    /\ UNCHANGED others_hw

\* One pass of the window's loop over the disk drives.
ScanDisk ==
    /\ loaded /\ tool = "gui"
    /\ reached < Len(DevicesOf(tool)) /\ NextDevice.kind = "disk"
    /\ LET model == Strip(NextDevice.text)
       IN  /\ scanned' = NextDevice.text
           /\ query' = model
           /\ lookup' = get_support_info_with_multimatch(
                            model, db_support["disk"], db_details["disk"],
                            db_kext["disk"], TRUE)
    /\ item' = WindowItem(lookup'.status, lookup'.match_type)
    /\ via' = "name"
    /\ last_kind' = NextDevice.kind
    /\ reached' = reached + 1
    /\ UNCHANGED <<list_file, loaded, db_support, db_details, db_kext, tool>>
    /\ UNCHANGED others_hw

\* One pass of one of the command-line tool's loops over the video
\* controllers, the sound devices and the network adapters.  A video
\* controller that is left out gets no lookup and no row.
CliScanDevice ==
    /\ loaded /\ tool = "cli"
    /\ reached < Len(DevicesOf(tool)) /\ NextDevice.kind \in {"gpu", "sound", "nic"}
    /\ IF LeftOut(NextDevice)
       THEN /\ via' = "skipped"
            /\ item' = NoItem
            /\ UNCHANGED <<scanned, query, lookup>>
       ELSE /\ LET pnp_id == NextDevice.text
                   id == extract_hardware_ids(pnp_id)
               IN  /\ scanned' = pnp_id
                   /\ query' = id
                   /\ lookup' = get_support_info(
                                    id, db_support[NextDevice.kind],
                                    db_details[NextDevice.kind],
                                    db_kext[NextDevice.kind])
            /\ item' = PrintedRow(lookup'.status)
            /\ via' = "cli"
    /\ last_kind' = NextDevice.kind
    /\ reached' = reached + 1
    /\ UNCHANGED <<list_file, loaded, db_support, db_details, db_kext, tool>>
    /\ UNCHANGED others_hw

NextHw == LoadSupportInfo \/ ScanDevice \/ ScanDisk \/ CliScanDevice

(***************************************************************************)
(* The support-list editor (gui_edit_hw_support_info.py)                   *)
(***************************************************************************)
\* str.splitlines(): \r\n ends a line as one break.
RECURSIVE SplitLines(_)
SplitLines(text) ==
    LET breaks == {i \in 1..Len(text) : text[i] \in LineBreaks}
    IN  IF text = <<>> THEN <<>>
        ELSE IF breaks = {} THEN <<text>>
        ELSE LET i == CHOOSE b \in breaks : \A c \in breaks : b <= c
                 skip == IF text[i] = "\r" /\ i < Len(text) /\ text[i + 1] = "\n"
                         THEN i + 1 ELSE i
             IN  <<SubSeq(text, 1, i - 1)>>
                 \o SplitLines(SubSeq(text, skip + 1, Len(text)))

\* re.match(r'^[0-9A-Fa-f]{4}&[0-9A-Fa-f]{4}$', key) for a key without a
\* line end in it.
MatchesDeviceId(key) ==
    /\ Len(key) = 9
    /\ key[5] = "&"
    /\ \A i \in {1, 2, 3, 4, 6, 7, 8, 9} : IsHexDigit(key[i])

\* A variant that does not look at the status value.
is_valid_entry_any_status(raw) ==
    LET line == Strip(raw)
        key == Strip(SplitOnce(line, "=")[1])
    IN  IF line = <<>> \/ StartsWith(line, <<"#">>) THEN "ok"
        ELSE IF ~HasChar(line, "=") THEN "missing_separator"
        ELSE IF ~(EndsWith(key, DotInfo) \/ EndsWith(key, DotKext))
                /\ ~MatchesDeviceId(key)
        THEN "invalid_device_id"
        ELSE "ok"

\* ListFileValidator.is_valid_entry: "ok", or the message of the error:
\* "missing_separator" (缺少等号分隔符), "invalid_device_id" (无效设备ID格式),
\* "empty_status" (状态值不能为空) or "invalid_status" (状态值必须是0或1).
is_valid_entry(raw) ==
    LET line == Strip(raw)
        key == Strip(SplitOnce(line, "=")[1])
        value == Strip(SplitOnce(line, "=")[2])
    IN  IF line = <<>> \/ StartsWith(line, <<"#">>) THEN "ok"
        ELSE IF ~HasChar(line, "=") THEN "missing_separator"
        ELSE IF ~(EndsWith(key, DotInfo) \/ EndsWith(key, DotKext))
        THEN IF ~MatchesDeviceId(key) THEN "invalid_device_id"
             ELSE IF value = <<>> THEN "empty_status"
             ELSE IF value \notin {<<"0">>, <<"1">>} THEN "invalid_status"
             ELSE "ok"
        ELSE "ok"

NoFields == [main |-> None, info |-> None, kext |-> None]

\* value if value else None
OrNone(value) == IF value = <<>> THEN None ELSE value

\* One iteration of the loop of parse_file.
ParseLine(entries, raw) ==
    LET line == Strip(raw)
        key == Strip(SplitOnce(line, "=")[1])
        value == Strip(SplitOnce(line, "=")[2])
        base_key == Split(key, ".")[1]
        known == IF DictHas(entries, base_key) THEN entries
                 ELSE DictPut(entries, base_key, NoFields)
        data == DictGet(known, base_key, NoFields)
    IN  IF line = <<>> \/ ~HasChar(line, "=") THEN entries
        ELSE IF EndsWith(key, DotInfo)
        THEN DictPut(known, base_key, [data EXCEPT !.info = OrNone(value)])
        ELSE IF EndsWith(key, DotKext)
        THEN DictPut(known, base_key, [data EXCEPT !.kext = OrNone(value)])
        ELSE DictPut(known, base_key, [data EXCEPT !.main = OrNone(value)])

RECURSIVE ParseLines(_, _)
ParseLines(entries, lines) ==
    IF lines = <<>> THEN entries
    ELSE ParseLines(ParseLine(entries, Head(lines)), Tail(lines))

\* ListFileValidator.parse_file
parse_file(text) == ParseLines(<<>>, SplitLines(text))

\* A variant that emits the detail line before the status line.
EntryLinesOfDetailFirst(dev_id, data) ==
    (IF data.info # None THEN <<dev_id \o DotInfo \o <<"=">> \o data.info>>
     ELSE <<>>)
    \o (IF data.main # None THEN <<dev_id \o <<"=">> \o data.main>> ELSE <<>>)
    \o (IF data.kext # None THEN <<dev_id \o DotKext \o <<"=">> \o data.kext>>
        ELSE <<>>)

\* The lines generate_file_content emits for one entry.
EntryLinesOf(dev_id, data) ==
    (IF data.main # None THEN <<dev_id \o <<"=">> \o data.main>> ELSE <<>>)
    \o (IF data.info # None THEN <<dev_id \o DotInfo \o <<"=">> \o data.info>>
        ELSE <<>>)
    \o (IF data.kext # None THEN <<dev_id \o DotKext \o <<"=">> \o data.kext>>
        ELSE <<>>)

RECURSIVE GeneratedLines(_)
GeneratedLines(entries) ==
    IF entries = <<>> THEN <<>>
    ELSE EntryLinesOf(entries[1][1], entries[1][2])
         \o GeneratedLines(Tail(entries))

\* generate_file_content
generate_file_content(entries) == Join(GeneratedLines(entries), <<"\n">>)

\* The error entry f"第{i}行: {msg} - {line}" of one line, kept as its parts.
ErrorEntry(i, msg, line) == [line_no |-> i, msg |-> msg, line |-> line]

RECURSIVE ValidateFrom(_, _)
\* The loop of validate_file_content from line i on.
ValidateFrom(lines, i) ==
    IF i > Len(lines) THEN [errors |-> <<>>, repairable |-> <<>>]
    ELSE LET line == Strip(lines[i])
             msg == is_valid_entry(line)
             rest == ValidateFrom(lines, i + 1)
         IN  IF line = <<>> \/ msg = "ok" THEN rest
             ELSE [errors |-> <<ErrorEntry(i, msg, line)>> \o rest.errors,
                   repairable |->
                       IF msg \in {"invalid_device_id", "invalid_status",
                                   "missing_separator"}
                       THEN <<line>> \o rest.repairable
                       ELSE rest.repairable]

\* validate_file_content
validate_file_content(text) == ValidateFrom(SplitLines(text), 1)

\* The lines the editor's list file is made of.
EditorLines ==
    { <<"1","0","0","2","&","6","7","D","F","=","1">>,
      <<"1","0","0","2","&","6","7","D","F",".","i","n","f","o","=","x">>,
      <<"1","0","d","e","&","1","c","8","2",".","k","e","x","t","=","k"," ">>,
      <<"1","0","0","2","&","6","7","D","=","1">>,
      <<"B","A","D","L","I","N","E">>,
      <<"1","0","0","2","&","6","7","D","F","=","2">>,
      <<"1","0","0","2","&","6","7","D","F","=">>,
      <<"#"," ","n","o","t","e","=","1">>,
      <<"a"," ",".","b","=","1">>,
      <<>>,
      <<VT,"B","A","D",US>> }

MaxFileLines == 3

\* The number of Save and Import operations of a session.
MaxOps == 2

EditorFiles == {Join(q, <<"\n">>) : q \in DistinctSeqs(EditorLines, MaxFileLines)}

\* No import so far.
NoImportResult ==
    [shown |-> FALSE, overwrite |-> FALSE, import_file |-> <<>>,
     imported_count |-> 0, skipped_count |-> 0, skip_details |-> <<>>]

\* SUPPORT_FILES: the list files the editor works on, by the file type
\* the combo box offers.
ListNames == {"GPUSupportInfo.list", "HDASupportInfo.list", "ETHSupportInfo.list"}

\* list(SUPPORT_FILES.keys())[0]
FirstList == "GPUSupportInfo.list"

NoOtherFiles == [name \in ListNames |-> <<>>]

\* The lists that are not selected when the editor starts: a sound list
\* of one entry, and a network list that the start-up code created empty
\* (lines 26-28).
OtherEditorFiles ==
    [name \in ListNames |->
        IF name = "HDASupportInfo.list"
        THEN <<"1","0","E","C","&","0","8","8","7","=","1">>
        ELSE <<>>]

\* main(): the first list is loaded when the window opens.
InitEd ==
    /\ file_content \in EditorFiles
    /\ current_file = FirstList
    /\ other_files = OtherEditorFiles
    /\ current_entries = parse_file(file_content)
    /\ event = ""
    /\ content = None
    /\ errors = <<>>
    /\ repairable_errors = <<>>
    /\ window = "main"
    /\ opened = file_content
    /\ ops = 0
    /\ popup = "none"
    /\ import_result = NoImportResult

\* The state of the editor while another tool is being used.
IdleEd ==
    /\ file_content = <<>>
    /\ current_file = FirstList
    /\ other_files = NoOtherFiles
    /\ current_entries = <<>>
    /\ event = ""
    /\ content = None
    /\ errors = <<>>
    /\ repairable_errors = <<>>
    /\ window = "closed"
    /\ opened = <<>>
    /\ ops = 0
    /\ popup = "none"
    /\ import_result = NoImportResult

\* The "refresh" button: the file is parsed again.
Refresh ==
    /\ window = "main"
    /\ event' = "-REFRESH-"
    /\ current_entries' = parse_file(file_content)
    /\ UNCHANGED <<file_content, content, errors, repairable_errors, window>>
    /\ popup' = "none"
    /\ import_result' = NoImportResult
    /\ UNCHANGED <<opened, ops, current_file, other_files>>
    /\ UNCHANGED others_ed

\* The file type combo box: the list of the chosen type becomes the selected
\* one and is read and parsed; choosing the type that is selected reads the
\* same file again.
SelectFileType(name) ==
    /\ window = "main"
    /\ event' = "-FILE_TYPE-"
    /\ current_file' = name
    /\ file_content' = IF name = current_file THEN file_content
                       ELSE other_files[name]
    /\ other_files' = IF name = current_file THEN other_files
                      ELSE [other_files EXCEPT ![current_file] = file_content,
                                               ![name] = <<>>]
    /\ current_entries' = parse_file(file_content')
    /\ opened' = file_content'
    /\ UNCHANGED <<content, errors, repairable_errors, window, ops>>
    /\ popup' = "none"
    /\ import_result' = NoImportResult
    /\ UNCHANGED others_ed

\* The "delete" button, with the identifier field holding edit_id and the
\* confirmation answered yes.
Delete(edit_id) ==
    /\ window = "main"
    /\ event' = "-DELETE-"
    /\ LET dev_id == Strip(edit_id)
       IN  /\ dev_id # <<>>
           /\ DictHas(current_entries, dev_id)
           /\ current_entries' =
                  SelectSeq(current_entries, LAMBDA e : e[1] # dev_id)
    /\ content' = generate_file_content(current_entries')
    /\ file_content' = content'
    /\ UNCHANGED <<errors, repairable_errors, window>>
    /\ popup' = "none"
    /\ import_result' = NoImportResult
    /\ UNCHANGED <<opened, ops, current_file, other_files>>
    /\ UNCHANGED others_ed

\* The "validate" button: the file is read and checked.  With errors the
\* dialog is built, which looks every repairable line up among the raw
\* lines (list.index raises when the raw line had surrounding whitespace,
\* and the exception ends the event loop); without errors a notice is
\* shown.
Validate ==
    /\ window = "main"
    /\ event' = "-VALIDATE-"
    /\ content' = file_content
    /\ LET found == validate_file_content(file_content)
       IN  /\ errors' = found.errors
           /\ repairable_errors' = found.repairable
           /\ window' =
                  IF found.errors = <<>> THEN "main"
                  ELSE IF Range(found.repairable)
                          \subseteq Range(SplitLines(file_content))
                  THEN "validate"
                  ELSE "closed"
    /\ UNCHANGED <<file_content, current_entries>>
    /\ popup' = "none"
    /\ import_result' = NoImportResult
    /\ UNCHANGED <<opened, ops, current_file, other_files>>
    /\ UNCHANGED others_ed

\* A variant of the filter that keeps the blank lines.
repaired_lines_with_blanks(lines, repairable) ==
    SelectSeq(lines, LAMBDA line : Strip(line) \notin Range(repairable))

\* repaired_lines: the lines that are not blank and not in the repairable
\* list.
repaired_lines(lines, repairable) ==
    SelectSeq(lines, LAMBDA line :
        Strip(line) # <<>> /\ Strip(line) \notin Range(repairable))

\* The dialog's "repair" button: the repairable lines and the blank lines
\* are dropped, the file is rewritten and parsed again.
Repair ==
    /\ window = "validate"
    /\ repairable_errors # <<>>
    /\ LET lines == SplitLines(content)
           repaired_content ==
               Join(repaired_lines(lines, repairable_errors), <<"\n">>)
       IN  /\ file_content' = repaired_content
           /\ current_entries' = parse_file(repaired_content)
    /\ window' = "main"
    /\ UNCHANGED <<event, content, errors, repairable_errors>>
    /\ popup' = "none"
    /\ import_result' = NoImportResult
    /\ UNCHANGED <<opened, ops, current_file, other_files>>
    /\ UNCHANGED others_ed

\* The dialog's "close" button.
CloseDialog ==
    /\ window = "validate"
    /\ window' = "main"
    /\ UNCHANGED <<file_content, current_entries, event, content, errors,
                   repairable_errors>>
    /\ popup' = "none"
    /\ import_result' = NoImportResult
    /\ UNCHANGED <<opened, ops, current_file, other_files>>
    /\ UNCHANGED others_ed

\* The "save" button with the four edit fields filled in.  An empty or
\* malformed identifier and a status other than "0" and "1" end the handler
\* with an error message; the entry of a new identifier has been created by
\* then in the second case.
Save(edit_id, edit_status, edit_info, edit_kext) ==
    /\ window = "main"
    /\ ops < MaxOps
    /\ ops' = ops + 1
    /\ event' = "-SAVE-"
    /\ LET dev_id == Upper(Strip(edit_id))
           status == Strip(edit_status)
           info == Strip(edit_info)
           kext == Strip(edit_kext)
           known == IF DictHas(current_entries, dev_id) THEN current_entries
                    ELSE DictPut(current_entries, dev_id, NoFields)
           old == DictGet(known, dev_id, NoFields)
           data == [main |-> IF status # <<>> THEN status ELSE old.main,
                    info |-> IF info # <<>> THEN info ELSE old.info,
                    kext |-> IF kext # <<>> THEN kext ELSE old.kext]
       IN  IF dev_id = <<>>
           THEN /\ popup' = "empty_id"
                /\ UNCHANGED <<current_entries, content, file_content>>
           ELSE IF ~MatchesDeviceId(dev_id)
           THEN /\ popup' = "invalid_id"
                /\ UNCHANGED <<current_entries, content, file_content>>
           ELSE IF status # <<>> /\ status \notin {<<"0">>, <<"1">>}
           THEN /\ popup' = "invalid_status"
                /\ current_entries' = known
                /\ UNCHANGED <<content, file_content>>
           ELSE /\ popup' = "none"
                /\ current_entries' = DictPut(known, dev_id, data)
                /\ content' = generate_file_content(current_entries')
                /\ file_content' = content'
    /\ import_result' = NoImportResult
    /\ UNCHANGED <<errors, repairable_errors, window, opened, current_file,
                   other_files>>
    /\ UNCHANGED others_ed

\* The options of the import window.
ImportOptions ==
    [import_main : BOOLEAN, import_info : BOOLEAN, import_kext : BOOLEAN,
     overwrite : BOOLEAN, skip_errors : BOOLEAN]

\* The first loop of import_entries: the lines of the import file are
\* checked and parsed; a line that is not valid is skipped or ends the
\* import.
RECURSIVE ReadImport(_, _, _)
ReadImport(imported, lines, skip_errors) ==
    IF lines = <<>> THEN [ok |-> TRUE, entries |-> imported]
    ELSE LET line == Strip(Head(lines))
         IN  IF line = <<>> \/ StartsWith(line, <<"#">>)
             THEN ReadImport(imported, Tail(lines), skip_errors)
             ELSE IF is_valid_entry(line) # "ok"
             THEN IF skip_errors
                  THEN ReadImport(imported, Tail(lines), skip_errors)
                  ELSE [ok |-> FALSE, entries |-> <<>>]
             ELSE ReadImport(ParseLine(imported, line), Tail(lines), skip_errors)

\* A variant of the iteration that merges into an entry that exists whatever
\* the overwrite option says.
MergeOneOverwriting(entries, dev_id, data, options) ==
    LET old == DictGet(entries, dev_id, NoFields)
        takes_main == options.import_main /\ data.main # None
        takes_info == options.import_info /\ data.info # None
        takes_kext == options.import_kext /\ data.kext # None
    IN  IF ~(takes_main \/ takes_info \/ takes_kext) THEN entries
        ELSE DictPut(entries, dev_id,
                     [main |-> IF takes_main THEN data.main ELSE old.main,
                      info |-> IF takes_info THEN data.info ELSE old.info,
                      kext |-> IF takes_kext THEN data.kext ELSE old.kext])

\* One iteration of the second loop of import_entries.
MergeOne(entries, dev_id, data, options) ==
    LET old == DictGet(entries, dev_id, NoFields)
        takes_main == options.import_main /\ data.main # None
        takes_info == options.import_info /\ data.info # None
        takes_kext == options.import_kext /\ data.kext # None
    IN  IF DictHas(entries, dev_id) /\ ~options.overwrite THEN entries
        ELSE IF ~(takes_main \/ takes_info \/ takes_kext) THEN entries
        ELSE DictPut(entries, dev_id,
                     [main |-> IF takes_main THEN data.main ELSE old.main,
                      info |-> IF takes_info THEN data.info ELSE old.info,
                      kext |-> IF takes_kext THEN data.kext ELSE old.kext])

RECURSIVE MergeImported(_, _, _)
MergeImported(entries, imported, options) ==
    IF imported = <<>> THEN entries
    ELSE MergeImported(MergeOne(entries, Head(imported)[1], Head(imported)[2], options),
                       Tail(imported), options)

\* import_entries: the entries after the import, and whether the list file
\* was written (it is not when a line ends the import).
import_entries(entries, options, import_text) ==
    LET read == ReadImport(<<>>, SplitLines(import_text), options.skip_errors)
    IN  IF ~read.ok THEN [entries |-> entries, saved |-> FALSE]
        ELSE [entries |-> MergeImported(entries, read.entries, options),
              saved |-> TRUE]

\* The second loop of import_entries: why an imported identifier is skipped,
\* "none" when it is imported.
SkipReason(entries, dev_id, data, options) ==
    IF DictHas(entries, dev_id) /\ ~options.overwrite THEN "exists"
    ELSE IF ~(\/ options.import_main /\ data.main # None
              \/ options.import_info /\ data.info # None
              \/ options.import_kext /\ data.kext # None) THEN "no_fields"
    ELSE "none"

\* The first loop of import_entries: the entries of skip_details for the
\* lines that are not valid; the label of a line is written L<number>.
FormatSkips(lines) ==
    LET bad == SelectSeq([i \in 1..Len(lines) |-> i],
                         LAMBDA i : /\ Strip(lines[i]) # <<>>
                                    /\ ~StartsWith(Strip(lines[i]), <<"#">>)
                                    /\ is_valid_entry(Strip(lines[i])) # "ok")
    IN  [j \in 1..Len(bad) |->
            [id |-> <<"L">> \o FormatDec(bad[j]), reason |-> "format"]]

\* import_entries: imported_count, skipped_count and skip_details as they
\* are given to show_import_result.  The identifiers of imported_entries
\* are distinct, so an identifier is in current_entries when its turn comes
\* exactly when it was there before the loop.
import_counts(entries, options, import_text) ==
    LET lines == SplitLines(import_text)
        read == ReadImport(<<>>, lines, options.skip_errors)
        skipped == SelectSeq(read.entries,
                       LAMBDA e : SkipReason(entries, e[1], e[2], options) # "none")
        skip_details ==
            FormatSkips(lines)
            \o [j \in 1..Len(skipped) |->
                    [id |-> skipped[j][1],
                     reason |-> SkipReason(entries, skipped[j][1],
                                           skipped[j][2], options)]]
    IN  [imported_count |-> Len(read.entries) - Len(skipped),
         skipped_count |-> Len(skip_details),
         skip_details |-> skip_details]

\* The import window: at least one kind of information is ticked and a
\* file is chosen.
Import(options, import_text) ==
    /\ window = "main"
    /\ ops < MaxOps
    /\ ops' = ops + 1
    /\ options.import_main \/ options.import_info \/ options.import_kext
    /\ event' = "-IMPORT-"
    /\ LET done == import_entries(current_entries, options, import_text)
       IN  /\ current_entries' = done.entries
           /\ file_content' = IF done.saved
                              THEN generate_file_content(done.entries)
                              ELSE file_content
           /\ popup' = IF done.saved THEN "none" ELSE "invalid_line"
           /\ import_result' =
                  IF done.saved
                  THEN LET counts == import_counts(current_entries, options,
                                                   import_text)
                       IN  [shown |-> TRUE, overwrite |-> options.overwrite,
                            import_file |-> import_text,
                            imported_count |-> counts.imported_count,
                            skipped_count |-> counts.skipped_count,
                            skip_details |-> counts.skip_details]
                  ELSE [NoImportResult EXCEPT
                            !.overwrite = options.overwrite,
                            !.import_file = import_text]
    /\ UNCHANGED <<content, errors, repairable_errors, window, opened, current_file,
                   other_files>>
    /\ UNCHANGED others_ed

\* The texts of the edit fields.
EditIds == { <<>>,
            <<"B","A","D">>,
            <<"1","0","0","2","&","6","7","d","f">> }
EditStatuses == {<<>>, <<"1">>, <<"2">>}
EditInfos == {<<>>, <<"x">>}
EditKexts == {<<"k">>}

\* The files that are imported.
ImportFiles ==
    { <<"G","P","U",".","i","n","f","o","=","x","\n","1","0","0","2","&","6","7","D","F","=","0">>,
      <<"1","0","0","2","&","6","7","D","F","=","2","\n","#"," ","c","=","2","\n","1","0","d","e","&","1","c","8","2",".","k","e","x","t","=","k">> }

\* The list files the editor is opened on when entries are edited.
OpenedFiles ==
    { <<>>,
      <<"1","0","0","2","&","6","7","D","F","=","1">>,
      <<"#"," ","n","o","t","e","=","2","\n","1","0","0","2","&","6","7","D","F","=","1","\n">>,
      <<"1","0","0","2","&","6","7","D","F","=","2","\n","B","A","D","L","I","N","E">>,
      <<"1","0","d","e","&","1","c","8","2","=","0","\n","1","0","d","e","&","1","c","8","2",".","i","n","f","o","=","x">> }

InitEdOps ==
    /\ file_content \in OpenedFiles
    /\ current_file = FirstList
    /\ other_files = OtherEditorFiles
    /\ current_entries = parse_file(file_content)
    /\ event = ""
    /\ content = None
    /\ errors = <<>>
    /\ repairable_errors = <<>>
    /\ window = "main"
    /\ opened = file_content
    /\ ops = 0
    /\ popup = "none"
    /\ import_result = NoImportResult

\* A session on the list that is selected when the editor starts.
NextEd ==
    \/ Refresh
    \/ \E i \in 1..Len(current_entries) : Delete(current_entries[i][1])
    \/ Validate
    \/ Repair
    \/ CloseDialog

\* The options of the imports of an editing session: the status and the
\* driver are ticked.
EditingImportOptions ==
    {o \in ImportOptions : o.import_main /\ o.import_kext}

\* The files of a session that only imports.
MergedFiles ==
    ImportFiles \cup
    { <<"1","0","0","2","&","6","7","D","F","=","0","\n","1","0","0","2","&","6","7","D","F",".","i","n","f","o","=","\n","1","0","d","e","&","1","c","8","2",".","k","e","x","t","=","z">>,
      <<"B","A","D","L","I","N","E","\n"," ","1","0","D","E","&","1","C","8","2"," ","="," ","0"," ","\n","\n","1","0","0","2","&","6","7","D","F",".","i","n","f","o"," ","="," ","y">> }

\* The number of imports of a session that only imports.
MaxImports == 1

\* A session that imports, with every choice of options, into any of the
\* lists.
NextImport ==
    \/ /\ ops < MaxImports
       /\ \E options \in ImportOptions, import_text \in MergedFiles :
              Import(options, import_text)
    \/ \E name \in ListNames : SelectFileType(name)

NextEdOps ==
    \/ \E edit_id \in EditIds, edit_status \in EditStatuses, edit_info \in EditInfos, edit_kext \in EditKexts :
          Save(edit_id, edit_status, edit_info, edit_kext)
    \/ \E options \in EditingImportOptions, import_text \in ImportFiles :
          Import(options, import_text)
    \/ \E i \in 1..Len(current_entries) : Delete(current_entries[i][1])
    \/ Refresh
    \/ Validate
    \/ Repair
    \/ CloseDialog

(***************************************************************************)
(* The ACPI device helper (gui_acpi_exp.py)                                *)
(*                                                                         *)
(* A path conversion returns Done(text), ReturnedNone where the code       *)
(* returns None, or Failed where it raises.                                *)
(***************************************************************************)
ReturnedNone == [ok |-> FALSE, val |-> None]

\* str.lstrip("0")
LStripZeros(s) ==
    IF \A i \in 1..Len(s) : s[i] = "0" THEN <<>>
    ELSE LET lo == CHOOSE i \in 1..Len(s) :
                       s[i] # "0" /\ \A j \in 1..(i - 1) : s[j] = "0"
         IN  SubSeq(s, lo, Len(s))

\* str.replace(old, new): every occurrence of old, left to right, without
\* overlap.
RECURSIVE Replace(_, _, _)
Replace(s, old, new) ==
    LET hits == {i \in 0..(Len(s) - Len(old)) : Slice(s, i, i + Len(old)) = old}
    IN  IF hits = {} THEN s
        ELSE LET i == CHOOSE h \in hits : \A g \in hits : h <= g
             IN  Slice(s, 0, i) \o new \o Replace(SliceFrom(s, i + Len(old)), old, new)

\* The characters of the classes \d ("digit"), [0-9A-Fa-f] ("hex") and
\* [^)] ("name").
InClass(c, class) ==
    CASE class = "digit" -> IsDecDigit(c)
      [] class = "hex" -> IsHexDigit(c)
      [] class = "name" -> c # ")"

\* re.search(tag + r"\((CLASS+)\)", s).group(1): the leftmost place where
\* tag and '(' are followed by one or more characters of the class and
\* then ')'; Failed when there is none (the code then raises on .group).
SearchParen(s, tag, class) ==
    LET open == tag \o <<"(">>
        run(i) == LET ends == {k \in 0..(Len(s) - i - Len(open)) :
                                  \A j \in 1..k : InClass(s[i + Len(open) + j], class)}
                  IN  CHOOSE k \in ends : \A m \in ends : m <= k
        hits == {i \in 0..(Len(s) - Len(open) - 2) :
                    /\ Slice(s, i, i + Len(open)) = open
                    /\ run(i) >= 1
                    /\ i + Len(open) + run(i) < Len(s)
                    /\ s[i + Len(open) + run(i) + 1] = ")"}
    IN  IF hits = {} THEN Failed
        ELSE LET i == CHOOSE h \in hits : \A g \in hits : h <= g
             IN  Done(Slice(s, i + Len(open), i + Len(open) + run(i)))

\* The loop of convert_pci_path from part i on, with the parts converted
\* so far.
RECURSIVE ConvertPciParts(_, _, _)
ConvertPciParts(parts, i, out) ==
    IF i > Len(parts) THEN Done(Join(out, <<"/">>))
    ELSE LET part == parts[i]
         IN  IF StartsWith(part, <<"P","C","I","R","O","O","T">>)
             THEN LET root_num == SearchParen(part, <<"P","C","I","R","O","O","T">>, "digit")
                  IN  IF ~root_num.ok THEN Failed
                      ELSE ConvertPciParts(parts, i + 1, Append(out,
                               <<"P","c","i","R","o","o","t","(","0","x">>
                               \o FormatHexUpper(PyInt(root_num.val, 10).val)
                               \o <<")">>))
             ELSE IF StartsWith(part, <<"P","C","I">>)
             THEN LET pci_num == SearchParen(part, <<"P","C","I">>, "hex")
                  IN  IF ~pci_num.ok THEN Failed
                      ELSE LET b == LStripZeros(Slice(pci_num.val, 0, 2))
                               d == LStripZeros(SliceFrom(pci_num.val, 2))
                               bus == IF b = <<>> THEN <<"0">> ELSE b
                               dev == IF d = <<>> THEN <<"0">> ELSE d
                           IN  ConvertPciParts(parts, i + 1, Append(out,
                                   <<"P","c","i","(","0","x">> \o bus
                                   \o <<",","0","x">> \o dev \o <<")">>))
             ELSE ReturnedNone

\* convert_pci_path of the ACPI helper: enumerator notation to firmware
\* device-path notation.
convert_pci_path(win_path) ==
    IF ~StartsWith(win_path, <<"P","C","I","R","O","O","T">>) THEN ReturnedNone
    ELSE ConvertPciParts(Split(win_path, "#"), 1, <<>>)

\* A variant that skips the parts that are not ACPI(name).
RECURSIVE ConvertAcpiPartsSkipping(_, _, _)
ConvertAcpiPartsSkipping(parts, i, out) ==
    IF i > Len(parts) THEN Done(Join(out, <<".">>))
    ELSE LET part == parts[i]
         IN  IF StartsWith(part, <<"A","C","P","I">>)
             THEN LET name == SearchParen(part, <<"A","C","P","I">>, "name")
                  IN  IF ~name.ok THEN Failed
                      ELSE ConvertAcpiPartsSkipping(parts, i + 1,
                               Append(out, StripUnderscore(name.val)))
             ELSE ConvertAcpiPartsSkipping(parts, i + 1, out)

\* The loop of convert_acpi_path from part i on, with the names collected
\* so far.
RECURSIVE ConvertAcpiParts(_, _, _)
ConvertAcpiParts(parts, i, out) ==
    IF i > Len(parts) THEN Done(Join(out, <<".">>))
    ELSE LET part == parts[i]
         IN  IF StartsWith(part, <<"A","C","P","I">>)
             THEN LET name == SearchParen(part, <<"A","C","P","I">>, "name")
                  IN  IF ~name.ok THEN Failed
                      ELSE ConvertAcpiParts(parts, i + 1,
                               Append(out, StripUnderscore(name.val)))
             ELSE ReturnedNone

\* convert_acpi_path: the ACPI names of an enumerator path, joined by dots.
convert_acpi_path(win_path) == ConvertAcpiParts(Split(win_path, "#"), 1, <<>>)

\* re.match(r'^[0-9a-fA-F]{4}$', device_id): four hex digits; '$' also
\* matches just before one final line feed.
validate_device_id(device_id) ==
    /\ Len(device_id) \in {4, 5}
    /\ \A i \in 1..4 : IsHexDigit(device_id[i])
    /\ Len(device_id) = 5 => device_id[5] = "\n"

\* The 0-based place of the last part that starts with PEGP, -1 when there
\* is none.
PegIndex(parts) ==
    LET hits == {i \in 1..Len(parts) : StartsWith(parts[i], <<"P","E","G","P">>)}
    IN  IF hits = {} THEN -1
        ELSE (CHOOSE i \in hits : \A j \in hits : j <= i) - 1

\* What a call of build_gpu_spoof_ssdt did: the value it returned ("False",
\* "True", or "raised" for an exception that leaves the function), the two
\* byte literals and the address it computed, and the text it wrote to the
\* output file; None for what was not produced.
BuildResult(returned, high_byte, low_byte, address, written) ==
    [returned |-> returned, high_byte |-> high_byte, low_byte |-> low_byte,
     address |-> address, written |-> written]

NotBuilt == BuildResult("none", None, None, None, None)

\* A variant that takes the first pair of digits as the high byte.
SpliceBytesUnswapped(device_id) ==
    [high_byte |-> <<"0","x">> \o Slice(device_id, 0, 2),
     low_byte |-> <<"0","x">> \o SliceFrom(device_id, 2)]

\* high_byte = f"0x{device_id[2:]}", low_byte = f"0x{device_id[:2]}"
SpliceBytes(device_id) ==
    [high_byte |-> <<"0","x">> \o SliceFrom(device_id, 2),
     low_byte |-> <<"0","x">> \o Slice(device_id, 0, 2)]

\* A variant that keeps the case of the device id.
NormalizedIdKeepingCase(device_id) == Strip(device_id)

\* device_id = device_id.lower().strip()
NormalizedId(device_id) == Strip(Lower(device_id))

\* build_gpu_spoof_ssdt, with what the environment decides: whether the
\* template file exists, its text, whether the user picks an output
\* directory, and whether the compiler accepts the file.
build_gpu_spoof_ssdt(path, device_id, model_name, is_rx6500, template_exists, template, dir_chosen, compiled) ==
    LET id == NormalizedId(device_id)
        bytes == SpliceBytes(id)
        parts == Split(path, ".")
        peg_idx == PegIndex(parts)
        acpi_path_pegp == Join(SubSeq(parts, 1, peg_idx), <<".">>)
        address == IF is_rx6500 THEN acpi_path_pegp ELSE path
        with_addr == Replace(template, <<"{","A","D","D","R","}">>, address)
        with_bytes == Replace(Replace(with_addr, <<"0","x","A","B">>, bytes.high_byte),
                              <<"0","x","C","D">>, bytes.low_byte)
        modified_content ==
            IF ~is_rx6500 /\ model_name # None /\ model_name # <<>>
            THEN Replace(with_bytes, <<"{","M","O","D","E","L","}">>, model_name)
            ELSE with_bytes
    IN  IF ~validate_device_id(device_id) THEN BuildResult("False", None, None, None, None)
        ELSE IF ~template_exists THEN BuildResult("False", None, None, None, None)
        ELSE IF ~dir_chosen THEN BuildResult("False", None, None, None, None)
        ELSE IF is_rx6500 /\ peg_idx = -1
        THEN BuildResult("raised", bytes.high_byte, bytes.low_byte, None, None)
        ELSE BuildResult(IF compiled THEN "True" ELSE "False",
                         bytes.high_byte, bytes.low_byte, address, modified_content)

\* The templates: every placeholder once.
GenericTemplate == <<"{","A","D","D","R","}"," ","0","x","A","B"," ","0","x","C","D"," ","{","M","O","D","E","L","}">>
Rx6500Template == <<"{","A","D","D","R","}"," ","0","x","A","B"," ","0","x","C","D">>

\* The location paths of the devices the helper lists.
LocationPaths ==
    { <<"A","C","P","I","(","_","S","B","_",")","#","A","C","P","I","(","P","C","I","0",")","#","A","C","P","I","(","G","F","X","0",")">>,
      <<"A","C","P","I","(","_","S","B","_",")","#","A","C","P","I","(","P","C","I","0",")","#","A","C","P","I","(","P","E","G","0",")","#","A","C","P","I","(","P","E","G","P",")">>,
      <<"A","C","P","I","(","P","E","G","P",")","#","A","C","P","I","(","_","_","_","_",")","#","A","C","P","I","(","P","E","G","P",")">>,
      <<"A","C","P","I","(","_","_","_","_",")">>,
      <<"A","C","P","I","(","_","S","B","_",")","#","A","C","P","I","(","P","_","0","_",")">>,
      <<"P","C","I","R","O","O","T","(","0",")","#","P","C","I","(","0","1","0","0",")","#","P","C","I","(","0","0","0","0",")">>,
      <<"P","C","I","R","O","O","T","(","1","0",")","#","P","C","I","(","1","C","0","4",")">>,
      <<"P","C","I","R","O","O","T","(","0",")","#","A","C","P","I","(","P","C","I","0",")">>,
      <<"A","C","P","I","(","_","S","B","_",")","#","P","C","I","(","0","1","0","0",")">>,
      <<"A","C","P","I","(","_","S","B","_",")","#","P","C","I","R","O","O","T","(","0",")","#","P","C","I","(","0","1","0","0",")">>,
      <<"P","C","I","R","O","O","T","(","0",")","#","P","C","I","(","0","1","0","0",")","#","A","C","P","I","(","G","F","X","0",")">>,
      <<"P","C","I","R","O","O","T","(","0",")","#","P","C","I","(","1","c","0","4",")">>,
      <<"A","C","P","I","(",")">>,
      <<"P","C","I","R","O","O","T","(","0",")","#","P","C","I","(","0","1",")">>,
      <<"U","S","B","R","O","O","T","(","0",")">> }

\* What the user types into the device id field and the display name field.
DeviceIdTexts ==
    { <<"6","7","D","F">>,
      <<"6","7","d","f">>,
      <<" ","7","3","B","f"," ">>,
      <<"c","d","A","B">>,
      <<"a","b","C","D">>,
      <<"6">>,
      <<"6","7","D","F","A">>,
      <<"6","7","D","G">>,
      <<>>,
      <<"6","7","D","F","\n">> }
ModelTexts == {<<>>, <<"R","X">>}

NotConverted == [ok |-> FALSE, val |-> <<"not converted">>]

InitAcpi ==
    /\ location_path \in LocationPaths
    /\ pci_converted = NotConverted
    /\ acpi_converted = NotConverted
    /\ method = "none"
    /\ acpi_path = None
    /\ device_id_input \in DeviceIdTexts
    /\ model_input \in ModelTexts
    /\ build = NotBuilt

\* The state of the ACPI helper while another tool is being used.
IdleAcpi ==
    /\ location_path = <<>>
    /\ pci_converted = NotConverted
    /\ acpi_converted = NotConverted
    /\ method = "none"
    /\ acpi_path = None
    /\ device_id_input = <<>>
    /\ model_input = <<>>
    /\ build = NotBuilt

\* show_location_details: both conversions of the selected device's path.
\* An exception in the first one ends the handler before the second.
ShowLocationDetails ==
    /\ pci_converted = NotConverted
    /\ pci_converted' = convert_pci_path(location_path)
    /\ acpi_converted' = IF pci_converted' = Failed THEN acpi_converted
                         ELSE convert_acpi_path(location_path)
    /\ UNCHANGED <<location_path, method, acpi_path, device_id_input,
                   model_input, build>>
    /\ UNCHANGED others_acpi

\* show_ssdt_dialog for a spoof method: the dialog opens on the device's
\* ACPI path when the conversion gives a non-empty one.
ShowSsdtDialog(m) ==
    /\ method = "none"
    /\ LET converted == convert_acpi_path(location_path)
       IN  /\ converted.ok
           /\ converted.val # <<>>
           /\ acpi_path' = converted.val
    /\ method' = m
    /\ UNCHANGED <<location_path, pci_converted, acpi_converted,
                   device_id_input, model_input, build>>
    /\ UNCHANGED others_acpi

\* generate_ssdt of the open dialog: the fields are read and trimmed and
\* build_gpu_spoof_ssdt is called.  The dialog of the RX 6x50 XT tests the
\* device id itself and returns without the call when it is refused.
GenerateSsdt(template_exists, dir_chosen, compiled) ==
    /\ method # "none"
    /\ build = NotBuilt
    /\ IF method = "spoof_rx6500"
       THEN IF ~validate_device_id(Strip(device_id_input))
            THEN UNCHANGED build
            ELSE build' = build_gpu_spoof_ssdt(acpi_path,
                              Strip(device_id_input), None, TRUE,
                              template_exists, Rx6500Template, dir_chosen,
                              compiled)
       ELSE build' = build_gpu_spoof_ssdt(acpi_path, Strip(device_id_input),
                         Strip(model_input), FALSE, template_exists,
                         GenericTemplate, dir_chosen, compiled)
    /\ UNCHANGED <<location_path, pci_converted, acpi_converted, method,
                   acpi_path, device_id_input, model_input>>
    /\ UNCHANGED others_acpi

NextAcpi ==
    \/ ShowLocationDetails
    \/ \E m \in {"spoof_generic", "spoof_rx6500"} : ShowSsdtDialog(m)
    \/ \E template_exists, dir_chosen, compiled \in BOOLEAN :
          GenerateSsdt(template_exists, dir_chosen, compiled)

(***************************************************************************)
(* The device loader of the ACPI helper (gui_acpi_exp.py)                  *)
(*                                                                         *)
(* The window's thread runs check_cache, refresh_data, closeEvent and      *)
(* on_data_loaded; every DeviceLoaderThread runs run(); every enumerator   *)
(* process prints its lines and ends.  The steps of the window's thread,   *)
(* of the loader threads and of the processes interleave.  A signal a      *)
(* loader emits is queued and is handled when the window's thread is in    *)
(* an event loop: the main one, or the one of the warning refresh_data     *)
(* shows first.                                                            *)
(***************************************************************************)
\* The number of devices the enumerator process prints, one line each.
DeviceCount == 2

\* The number of loader threads a session starts.
MaxLoaders == 2

\* The lines the enumerator prints when it runs to its end.
DeviceLines == [i \in 1..DeviceCount |-> <<"device", i>>]

\* No cache file.
NoCache == <<<<"none", 0>>>>

\* The cache file after open(CACHE_FILE, "w") and before anything is
\* written to it: no JSON document.
EmptyFile == <<<<"empty", 0>>>>

\* The cache file after a shorter list was written over a longer one: the
\* shorter document followed by the end of the longer one.
Garbled == <<<<"garbled", 0>>>>

\* What the file holds after a writer that opened it earlier writes its
\* list from the start of the file.
Overwritten(file, list) ==
    IF file \in {NoCache, EmptyFile} THEN list
    ELSE IF file = Garbled \/ Len(file) > Len(list) THEN Garbled
    ELSE list

\* A thread that has just been started.  pc is the place of the thread in
\* run(): "start" (before Popen), "test" (the head of the loop), "readline",
\* "save" (line 475, the open), "dump" (line 476), "emit", "finally" and
\* "done".  process is the state of the enumerator: "none" (self.process is
\* None), "running", "exited" or "terminated"; printed is the number of
\* lines it has written to its output.  killed records that the window
\* called QThread.terminate() on the thread.
NewLoader ==
    [pc |-> "start", is_running |-> TRUE, process |-> "none", printed |-> 0,
     read |-> <<>>, stopped_early |-> FALSE, wrote |-> FALSE,
     emitted |-> FALSE, killed |-> FALSE]

\* QThread.isRunning()
isRunning(thread) == thread.pc # "done"

\* DeviceLoaderThread.terminate_process: a process that exists and has not
\* ended is terminated.
terminate_process(thread) ==
    [thread EXCEPT !.process = IF @ = "running" THEN "terminated" ELSE @]

\* The first statement of DeviceLoaderThread.stop(): the flag is cleared;
\* stopped_early records that the process had not finished by then.
stop(thread) ==
    [thread EXCEPT !.is_running = FALSE,
                   !.stopped_early = (thread.process # "exited")]

\* The cache files a session can find: none, or what an earlier session
\* left: a file without a JSON document, or the list of the devices a
\* loader had read when it wrote the file.
FoundCaches ==
    {NoCache, EmptyFile, Garbled}
        \cup {SubSeq(DeviceLines, 1, n) : n \in 0..DeviceCount}

\* load_from_cache: json.load returns the list of the file; it raises for
\* a file that holds no JSON document.
Loadable(file) == file \notin {NoCache, EmptyFile, Garbled}

\* __init__ ends with check_cache: with a cache file and the answer yes,
\* load_from_cache takes the devices of the file and no loader is started;
\* when json.load raises, load_from_cache calls refresh_data; without a
\* file or with the answer no, check_cache calls refresh_data, which
\* starts the first loader.
InitLoader ==
    /\ cache_file \in FoundCaches
    /\ \E use_cache \in BOOLEAN :
           IF cache_file # NoCache /\ use_cache /\ Loadable(cache_file)
           THEN devices = cache_file /\ loaders = <<>>
           ELSE devices = <<>> /\ loaders = <<NewLoader>>
    /\ signals = <<>>
    /\ viewer = "open"
    /\ handler = "idle"

\* The state of the device list while another tool is being used.
IdleLoader ==
    /\ loaders = <<>>
    /\ cache_file = NoCache
    /\ devices = <<>>
    /\ signals = <<>>
    /\ viewer = "closed"
    /\ handler = "idle"

\* refresh_data is called and shows its warning.
RefreshData ==
    /\ viewer = "open" /\ handler = "idle"
    /\ Len(loaders) < MaxLoaders
    /\ handler' = "refresh_warning"
    /\ UNCHANGED <<loaders, cache_file, devices, signals, viewer>>
    /\ UNCHANGED others_loader

\* refresh_data, lines 882-883: the warning is closed; a loader that is
\* running is told to stop (the first statement of stop()).
RefreshStop ==
    /\ handler = "refresh_warning"
    /\ LET n == Len(loaders)
       IN  IF n > 0 /\ isRunning(loaders[n])
           THEN /\ loaders' = [loaders EXCEPT ![n] = stop(loaders[n])]
                /\ handler' = "refresh_terminate"
           ELSE /\ handler' = "refresh_start"
                /\ UNCHANGED loaders
    /\ UNCHANGED <<cache_file, devices, signals, viewer>>
    /\ UNCHANGED others_loader

\* stop(), called by refresh_data: terminate_process; quit() and the wait
\* of at most two seconds follow, so that the loader may or may not have
\* ended when refresh_data goes on.
RefreshTerminate ==
    /\ handler = "refresh_terminate"
    /\ loaders' = [loaders EXCEPT ![Len(loaders)] = terminate_process(@)]
    /\ handler' = "refresh_start"
    /\ UNCHANGED <<cache_file, devices, signals, viewer>>
    /\ UNCHANGED others_loader

\* refresh_data, lines 892-896: the new loader is started.
StartLoader ==
    /\ handler = "refresh_start"
    /\ loaders' = Append(loaders, NewLoader)
    /\ handler' = "idle"
    /\ UNCHANGED <<cache_file, devices, signals, viewer>>
    /\ UNCHANGED others_loader

\* closeEvent: a loader that is running is told to stop; without one the
\* window closes.
CloseEvent ==
    /\ viewer = "open" /\ handler = "idle"
    /\ LET n == Len(loaders)
       IN  IF n > 0 /\ isRunning(loaders[n])
           THEN /\ loaders' = [loaders EXCEPT ![n] = stop(loaders[n])]
                /\ handler' = "close_terminate"
                /\ UNCHANGED viewer
           ELSE /\ viewer' = "closed"
                /\ UNCHANGED <<loaders, handler>>
    /\ UNCHANGED <<cache_file, devices, signals>>
    /\ UNCHANGED others_loader

\* stop(), called by closeEvent: terminate_process.
CloseTerminate ==
    /\ handler = "close_terminate"
    /\ loaders' = [loaders EXCEPT ![Len(loaders)] = terminate_process(@)]
    /\ handler' = "close_wait"
    /\ UNCHANGED <<cache_file, devices, signals, viewer>>
    /\ UNCHANGED others_loader

\* closeEvent, lines 628-630: the waits of stop() and of closeEvent are
\* over; a thread that has not ended is terminated by force, which takes
\* effect at once or later; the window closes.
CloseAccept ==
    /\ handler = "close_wait"
    /\ loaders' = [loaders EXCEPT ![Len(loaders)].killed =
                      isRunning(loaders[Len(loaders)])]
    /\ viewer' = "closed"
    /\ handler' = "idle"
    /\ UNCHANGED <<cache_file, devices, signals>>
    /\ UNCHANGED others_loader

\* QThread.terminate() takes effect: the thread ends where it is.
Killed(g) ==
    /\ loaders[g].killed
    /\ isRunning(loaders[g])
    /\ loaders' = [loaders EXCEPT ![g].pc = "done"]
    /\ UNCHANGED <<cache_file, devices, signals, viewer, handler>>
    /\ UNCHANGED others_loader

\* run(), line 439: the process is created; an exception of Popen leads to
\* the except clause.
StartProcess(g, raised) ==
    /\ loaders[g].pc = "start"
    /\ loaders' = IF raised THEN [loaders EXCEPT ![g].pc = "finally"]
                  ELSE [loaders EXCEPT ![g].process = "running",
                                       ![g].pc = "test"]
    /\ UNCHANGED <<cache_file, devices, signals, viewer, handler>>
    /\ UNCHANGED others_loader

\* The enumerator process prints a line.
ProcessPrints(g) ==
    /\ loaders[g].process = "running"
    /\ loaders[g].printed < DeviceCount
    /\ loaders' = [loaders EXCEPT ![g].printed = @ + 1]
    /\ UNCHANGED <<cache_file, devices, signals, viewer, handler>>
    /\ UNCHANGED others_loader

\* The enumerator process has printed everything and ends.
EndOfOutput(g) ==
    /\ loaders[g].process = "running"
    /\ loaders[g].printed = DeviceCount
    /\ loaders' = [loaders EXCEPT ![g].process = "exited"]
    /\ UNCHANGED <<cache_file, devices, signals, viewer, handler>>
    /\ UNCHANGED others_loader

\* run(), line 452: the test of the while loop.  After the loop the test
\* of line 469 is False: the loop is left with _is_running False or with a
\* process that has ended.
LoopTest(g) ==
    /\ loaders[g].pc = "test"
    /\ loaders' = [loaders EXCEPT ![g].pc =
                      IF loaders[g].is_running THEN "readline" ELSE "save"]
    /\ UNCHANGED <<cache_file, devices, signals, viewer, handler>>
    /\ UNCHANGED others_loader

\* run(), lines 454-466: readline returns a line the process has printed
\* and the device is kept, or it returns nothing because the process has
\* ended and the loop breaks.  While the process runs and has printed
\* nothing new, readline waits.
ReadLine(g) ==
    /\ loaders[g].pc = "readline"
    /\ IF Len(loaders[g].read) < loaders[g].printed
       THEN loaders' = [loaders EXCEPT
                           ![g].read = Append(@, DeviceLines[Len(@) + 1]),
                           ![g].pc = "test"]
       ELSE /\ loaders[g].process \in {"exited", "terminated"}
            /\ loaders' = [loaders EXCEPT ![g].pc = "save"]
    /\ UNCHANGED <<cache_file, devices, signals, viewer, handler>>
    /\ UNCHANGED others_loader

\* run(), line 475: the cache file is opened for writing, which empties
\* it; an exception leads to the except clause.
OpenCache(g, raised) ==
    /\ loaders[g].pc = "save"
    /\ IF raised
       THEN /\ loaders' = [loaders EXCEPT ![g].pc = "finally"]
            /\ UNCHANGED cache_file
       ELSE /\ loaders' = [loaders EXCEPT ![g].pc = "dump"]
            /\ cache_file' = EmptyFile
    /\ UNCHANGED <<devices, signals, viewer, handler>>
    /\ UNCHANGED others_loader

\* run(), line 476: the devices read so far are written to the file and
\* the file is closed.
SaveCache(g) ==
    /\ loaders[g].pc = "dump"
    /\ cache_file' = Overwritten(cache_file, loaders[g].read)
    /\ loaders' = [loaders EXCEPT ![g].pc = "emit", ![g].wrote = TRUE]
    /\ UNCHANGED <<devices, signals, viewer, handler>>
    /\ UNCHANGED others_loader

\* run(): data_loaded is emitted; the signal is queued for the window.
EmitLoaded(g) ==
    /\ loaders[g].pc = "emit"
    /\ signals' = Append(signals, loaders[g].read)
    /\ loaders' = [loaders EXCEPT ![g].pc = "finally", ![g].emitted = TRUE]
    /\ UNCHANGED <<cache_file, devices, viewer, handler>>
    /\ UNCHANGED others_loader

\* run(): the finally clause calls terminate_process, which terminates a
\* process that has not ended (line 493) and then waits for it for at most
\* two seconds (line 494); the thread is still running while it waits.
FinallyTerminate(g) ==
    /\ loaders[g].pc = "finally"
    /\ loaders[g].process = "running"
    /\ loaders' = [loaders EXCEPT ![g] = terminate_process(loaders[g])]
    /\ UNCHANGED <<cache_file, devices, signals, viewer, handler>>
    /\ UNCHANGED others_loader

\* run(): terminate_process returns, at once when there is no process or
\* it has ended, and run() ends.
Finally(g) ==
    /\ loaders[g].pc = "finally"
    /\ loaders[g].process # "running"
    /\ loaders' = [loaders EXCEPT ![g].pc = "done"]
    /\ UNCHANGED <<cache_file, devices, signals, viewer, handler>>
    /\ UNCHANGED others_loader

\* on_data_loaded: the window takes the list of a queued signal.
OnDataLoaded ==
    /\ viewer = "open"
    /\ handler \in {"idle", "refresh_warning"}
    /\ signals # <<>>
    /\ devices' = Head(signals)
    /\ signals' = Tail(signals)
    /\ UNCHANGED <<loaders, cache_file, viewer, handler>>
    /\ UNCHANGED others_loader

NextLoader ==
    \/ RefreshData
    \/ RefreshStop
    \/ RefreshTerminate
    \/ StartLoader
    \/ CloseEvent
    \/ CloseTerminate
    \/ CloseAccept
    \/ \E g \in 1..Len(loaders) : Killed(g)
    \/ \E g \in 1..Len(loaders) : \E raised \in BOOLEAN : StartProcess(g, raised)
    \/ \E g \in 1..Len(loaders) : ProcessPrints(g)
    \/ \E g \in 1..Len(loaders) : EndOfOutput(g)
    \/ \E g \in 1..Len(loaders) : LoopTest(g)
    \/ \E g \in 1..Len(loaders) : ReadLine(g)
    \/ \E g \in 1..Len(loaders) : \E raised \in BOOLEAN : OpenCache(g, raised)
    \/ \E g \in 1..Len(loaders) : SaveCache(g)
    \/ \E g \in 1..Len(loaders) : EmitLoaded(g)
    \/ \E g \in 1..Len(loaders) : FinallyTerminate(g)
    \/ \E g \in 1..Len(loaders) : Finally(g)
    \/ OnDataLoaded

(***************************************************************************)
(* The USB customizer (gui_usb_customizer.py)                              *)
(*                                                                         *)
(* The window's thread runs start_customization and stop_customization; a  *)
(* worker thread runs run_customization.  Their steps interleave.          *)
(*                                                                         *)
(* log() ends with root.update(), which handles the events that are        *)
(* pending: inside a handler that calls log(), the presses of the enabled  *)
(* buttons and the callbacks of root.after are handled before the handler  *)
(* goes on.  A handler that is left to do nothing after its last log()     *)
(* ends there: what root.update() handles then is what the main loop       *)
(* handles after it.  The calls of log() in the worker thread are carried  *)
(* out by the window's thread (tkinter hands a call of another thread to   *)
(* the thread that owns the interpreter), so that handlers only ever run   *)
(* in the window's thread.                                                 *)
(***************************************************************************)
\* The number of presses of the start and stop buttons in a session that
\* the handlers do not refuse.
MaxClicks == 2

\* run_customization: the options that are chosen in order.
options == <<"P", "D", "B", "A", "S", "K">>

\* handle_b_option: max_attempts
max_attempts == 5

\* check_for_quit_prompt always reports the prompt.
check_for_quit_prompt == TRUE

\* A thread that has just been started with run_customization as its
\* target.  pc is its place: "start", "option" (the head of the for loop),
\* "key", "b_test" (the head of the while loop of handle_b_option),
\* "b_key", "after" (the test after the loop), "sleep", "cleanup" (line
\* 239), "clear_proc" (244), "clear_running" (245), "finish" (246),
\* "finish_stop" (247) and "done"; "copy" is the place in
\* check_and_copy_results after its two tests.  process is the state of the Windows.exe it started: "none",
\* "running" or "terminated"; stopped records that stop_customization
\* terminated it.  entered_copy, stopped_before_copy and copied record the
\* call of check_and_copy_results.
NewWorker ==
    [pc |-> "start", opt |-> 1, attempts |-> 0, process |-> "none",
     stopped |-> FALSE, entered_copy |-> FALSE,
     stopped_before_copy |-> FALSE, copied |-> FALSE]

\* start_customization: the two early returns.
StartAccepted(is_running, dir_set) == ~is_running /\ dir_set

\* The workers with the process of worker g terminated.
Terminated(g, by_stop) ==
    IF g = 0 THEN workers
    ELSE [workers EXCEPT ![g].process = "terminated",
                         ![g].stopped = @ \/ by_stop]

InitUsb ==
    /\ running = FALSE
    /\ stop_requested = FALSE
    /\ proc = 0
    /\ workers = <<>>
    /\ start_btn = TRUE
    /\ stop_btn = FALSE
    /\ after_queue = <<>>
    /\ frames = <<>>
    /\ clicks = 0

\* The state of the USB customizer while another tool is being used.
IdleUsb ==
    /\ running = FALSE
    /\ stop_requested = FALSE
    /\ proc = 0
    /\ workers = <<>>
    /\ start_btn = TRUE
    /\ stop_btn = FALSE
    /\ after_queue = <<>>
    /\ frames = <<>>
    /\ clicks = MaxClicks

\* A press of the start button, handled by the main loop or by the
\* root.update() of a handler that waits in log(): start_customization up
\* to the root.update() of its own call of log() (lines 80 to 91).
StartCustomization(dir_set) ==
    /\ start_btn
    /\ clicks < MaxClicks
    /\ IF StartAccepted(running, dir_set)
       THEN /\ running' = TRUE
            /\ stop_requested' = FALSE
            /\ start_btn' = FALSE
            /\ stop_btn' = TRUE
            /\ frames' = Append(frames, "start")
            /\ clicks' = clicks + 1
       ELSE UNCHANGED <<running, stop_requested, start_btn, stop_btn, frames,
                        clicks>>
    /\ UNCHANGED <<proc, workers, after_queue>>
    /\ UNCHANGED others_usb

\* start_customization after its log() has returned: the thread is
\* started (line 93).
StartThread ==
    /\ frames # <<>> /\ frames[Len(frames)] = "start"
    /\ workers' = Append(workers, NewWorker)
    /\ frames' = SubSeq(frames, 1, Len(frames) - 1)
    /\ UNCHANGED <<running, stop_requested, proc, start_btn, stop_btn,
                   after_queue, clicks>>
    /\ UNCHANGED others_usb

\* A press of the stop button: stop_customization up to the root.update()
\* of its first call of log() (lines 96 to 100).
StopCustomization ==
    /\ stop_btn
    /\ clicks < MaxClicks
    /\ IF running
       THEN /\ stop_requested' = TRUE
            /\ frames' = Append(frames, "stop")
            /\ clicks' = clicks + 1
       ELSE UNCHANGED <<stop_requested, frames, clicks>>
    /\ UNCHANGED <<running, proc, workers, start_btn, stop_btn, after_queue>>
    /\ UNCHANGED others_usb

\* stop_customization after its log() has returned: the test of proc
\* (line 102).
StopTestProc ==
    /\ frames # <<>> /\ frames[Len(frames)] = "stop"
    /\ frames' = IF proc # 0
                 THEN [frames EXCEPT ![Len(frames)] = "stop_terminate"]
                 ELSE SubSeq(frames, 1, Len(frames) - 1)
    /\ UNCHANGED <<running, stop_requested, proc, workers, start_btn,
                   stop_btn, after_queue, clicks>>
    /\ UNCHANGED others_usb

\* stop_customization: proc is read again and the process it refers to is
\* terminated with its children (lines 104 to 107); when proc has become
\* None in between, the exception is caught and logged (line 110).  The
\* handler ends with a call of log().
StopTerminate ==
    /\ frames # <<>> /\ frames[Len(frames)] = "stop_terminate"
    /\ workers' = Terminated(proc, TRUE)
    /\ frames' = SubSeq(frames, 1, Len(frames) - 1)
    /\ UNCHANGED <<running, stop_requested, proc, start_btn, stop_btn,
                   after_queue, clicks>>
    /\ UNCHANGED others_usb

\* The main thread runs the oldest callback of root.after(0, ...).
AfterCallback ==
    /\ after_queue # <<>>
    /\ IF Head(after_queue) = "start_normal"
       THEN start_btn' = TRUE /\ stop_btn' = stop_btn
       ELSE stop_btn' = FALSE /\ start_btn' = start_btn
    /\ after_queue' = Tail(after_queue)
    /\ UNCHANGED <<running, stop_requested, proc, workers, frames, clicks>>
    /\ UNCHANGED others_usb

\* run_customization: the test for Windows.exe and its start (lines 118 to
\* 126).
CheckExe(g, exe_exists) ==
    /\ workers[g].pc = "start"
    /\ IF exe_exists
       THEN /\ proc' = g
            /\ workers' = [workers EXCEPT ![g].pc = "option",
                                          ![g].process = "running"]
       ELSE /\ proc' = proc
            /\ workers' = [workers EXCEPT ![g].pc = "cleanup"]
    /\ UNCHANGED <<running, stop_requested, start_btn, stop_btn, after_queue,
                   frames, clicks>>
    /\ UNCHANGED others_usb

\* run_customization: the head of the for loop and the stop test in it.
NextOption(g) ==
    /\ workers[g].pc = "option"
    /\ workers' = [workers EXCEPT ![g].pc =
                      IF workers[g].opt > Len(options) \/ stop_requested
                      THEN "after" ELSE "key"]
    /\ UNCHANGED <<running, stop_requested, proc, start_btn, stop_btn,
                   after_queue, frames, clicks>>
    /\ UNCHANGED others_usb

\* run_customization: simulate_key_input for the option; an exception of
\* the key simulation is raised again and ends the run.
SimulateKey(g, raised) ==
    /\ workers[g].pc = "key"
    /\ workers' =
           IF raised THEN [workers EXCEPT ![g].pc = "cleanup"]
           ELSE IF options[workers[g].opt] = "B"
                THEN [workers EXCEPT ![g].pc = "b_test", ![g].attempts = 0]
                ELSE [workers EXCEPT ![g].pc = "option", ![g].opt = @ + 1]
    /\ UNCHANGED <<running, stop_requested, proc, start_btn, stop_btn,
                   after_queue, frames, clicks>>
    /\ UNCHANGED others_usb

\* handle_b_option: the test of the while loop.
BTest(g) ==
    /\ workers[g].pc = "b_test"
    /\ workers' =
           IF workers[g].attempts < max_attempts /\ ~stop_requested
           THEN [workers EXCEPT ![g].pc = "b_key"]
           ELSE [workers EXCEPT ![g].pc = "option", ![g].opt = @ + 1]
    /\ UNCHANGED <<running, stop_requested, proc, start_btn, stop_btn,
                   after_queue, frames, clicks>>
    /\ UNCHANGED others_usb

\* handle_b_option: one pass of the while loop.
BKey(g, raised) ==
    /\ workers[g].pc = "b_key"
    /\ workers' =
           IF raised THEN [workers EXCEPT ![g].pc = "cleanup"]
           ELSE IF check_for_quit_prompt
                THEN [workers EXCEPT ![g].attempts = @ + 1,
                                     ![g].pc = "option", ![g].opt = @ + 1]
                ELSE [workers EXCEPT ![g].attempts = @ + 1,
                                     ![g].pc = "b_test"]
    /\ UNCHANGED <<running, stop_requested, proc, start_btn, stop_btn,
                   after_queue, frames, clicks>>
    /\ UNCHANGED others_usb

\* run_customization: the stop test after the loop.
AfterLoop(g) ==
    /\ workers[g].pc = "after"
    /\ workers' = [workers EXCEPT ![g].pc =
                      IF ~stop_requested THEN "sleep" ELSE "cleanup"]
    /\ UNCHANGED <<running, stop_requested, proc, start_btn, stop_btn,
                   after_queue, frames, clicks>>
    /\ UNCHANGED others_usb

\* run_customization: after the sleep, check_and_copy_results is entered
\* (line 147); it returns when one of the two drivers was not generated
\* (lines 217 to 223).
CheckAndCopyResults(g, generated) ==
    /\ workers[g].pc = "sleep"
    /\ workers' = [workers EXCEPT ![g].pc = IF generated THEN "copy"
                                            ELSE "cleanup",
                                  ![g].entered_copy = TRUE,
                                  ![g].stopped_before_copy = stop_requested]
    /\ UNCHANGED <<running, stop_requested, proc, start_btn, stop_btn,
                   after_queue, frames, clicks>>
    /\ UNCHANGED others_usb

\* check_and_copy_results after its two calls of log() (lines 225 and 228),
\* during which the window's thread handles the presses that are pending:
\* the two drivers are copied (lines 231 and 232); an exception of
\* copytree is caught and logged, with one driver copied or none.  copied
\* records that both were copied.
CopyResults(g, raised) ==
    /\ workers[g].pc = "copy"
    /\ workers' = [workers EXCEPT ![g].pc = "cleanup",
                                  ![g].copied = ~raised]
    /\ UNCHANGED <<running, stop_requested, proc, start_btn, stop_btn,
                   after_queue, frames, clicks>>
    /\ UNCHANGED others_usb

\* cleanup: the process proc refers to is terminated (lines 239 to 243).
Cleanup(g) ==
    /\ workers[g].pc = "cleanup"
    /\ workers' = [Terminated(proc, FALSE) EXCEPT ![g].pc = "clear_proc"]
    /\ UNCHANGED <<running, stop_requested, proc, start_btn, stop_btn,
                   after_queue, frames, clicks>>
    /\ UNCHANGED others_usb

\* cleanup: proc is cleared (line 244).
ClearProc(g) ==
    /\ workers[g].pc = "clear_proc"
    /\ proc' = 0
    /\ workers' = [workers EXCEPT ![g].pc = "clear_running"]
    /\ UNCHANGED <<running, stop_requested, start_btn, stop_btn, after_queue,
                   frames, clicks>>
    /\ UNCHANGED others_usb

\* A variant of line 245 that leaves running as it is.
KeepRunning(g) ==
    /\ workers[g].pc = "clear_running"
    /\ workers' = [workers EXCEPT ![g].pc = "finish"]
    /\ UNCHANGED <<running, stop_requested, proc, start_btn, stop_btn,
                   after_queue, frames, clicks>>
    /\ UNCHANGED others_usb

\* cleanup: running is cleared (line 245).
ClearRunning(g) ==
    /\ workers[g].pc = "clear_running"
    /\ running' = FALSE
    /\ workers' = [workers EXCEPT ![g].pc = "finish"]
    /\ UNCHANGED <<stop_requested, proc, start_btn, stop_btn, after_queue,
                   frames, clicks>>
    /\ UNCHANGED others_usb

\* cleanup: the change of the start button is handed to the main thread
\* (line 246).
EnableStart(g) ==
    /\ workers[g].pc = "finish"
    /\ after_queue' = Append(after_queue, "start_normal")
    /\ workers' = [workers EXCEPT ![g].pc = "finish_stop"]
    /\ UNCHANGED <<running, stop_requested, proc, start_btn, stop_btn,
                   frames, clicks>>
    /\ UNCHANGED others_usb

\* cleanup: the change of the stop button is handed to the main thread
\* (line 247) and the thread ends.
Finish(g) ==
    /\ workers[g].pc = "finish_stop"
    /\ after_queue' = Append(after_queue, "stop_disabled")
    /\ workers' = [workers EXCEPT ![g].pc = "done"]
    /\ UNCHANGED <<running, stop_requested, proc, start_btn, stop_btn,
                   frames, clicks>>
    /\ UNCHANGED others_usb

\* The steps of the worker threads.
WorkerStep ==
    \/ \E g \in 1..Len(workers) : \E exe_exists \in BOOLEAN :
           CheckExe(g, exe_exists)
    \/ \E g \in 1..Len(workers) : NextOption(g)
    \/ \E g \in 1..Len(workers) : \E raised \in BOOLEAN :
           SimulateKey(g, raised)
    \/ \E g \in 1..Len(workers) : BTest(g)
    \/ \E g \in 1..Len(workers) : \E raised \in BOOLEAN : BKey(g, raised)
    \/ \E g \in 1..Len(workers) : AfterLoop(g)
    \/ \E g \in 1..Len(workers) : \E generated \in BOOLEAN :
           CheckAndCopyResults(g, generated)
    \/ \E g \in 1..Len(workers) : \E raised \in BOOLEAN :
           CopyResults(g, raised)
    \/ \E g \in 1..Len(workers) : Cleanup(g)
    \/ \E g \in 1..Len(workers) : ClearProc(g)
    \/ \E g \in 1..Len(workers) : ClearRunning(g)
    \/ \E g \in 1..Len(workers) : EnableStart(g)
    \/ \E g \in 1..Len(workers) : Finish(g)

\* The steps the main thread takes without a press of a button: a handler
\* goes on after its root.update() has returned, or a callback is run.
MainStep == StartThread \/ StopTestProc \/ StopTerminate \/ AfterCallback

NextUsb ==
    \/ \E dir_set \in BOOLEAN : StartCustomization(dir_set)
    \/ StopCustomization
    \/ MainStep
    \/ WorkerStep

\* The path converter runs.
InitConverter == InitPath /\ IdleHw /\ IdleEd /\ IdleAcpi /\ IdleLoader /\ IdleUsb
SpecPath == InitConverter /\ [][NextPath]_vars

\* The hardware information tool runs.
Init == InitHw /\ IdlePath /\ IdleEd /\ IdleAcpi /\ IdleLoader /\ IdleUsb
Next == NextHw
Spec == Init /\ [][Next]_vars

\* The support-list editor runs.
InitEditor == InitEd /\ IdlePath /\ IdleHw /\ IdleAcpi /\ IdleLoader /\ IdleUsb
SpecEdit == InitEditor /\ [][NextEd]_vars

\* The editor is used to change a list.
InitEditing == InitEdOps /\ IdlePath /\ IdleHw /\ IdleAcpi /\ IdleLoader /\ IdleUsb
SpecEditOps == InitEditing /\ [][NextEdOps]_vars

\* The list editor: imports and selections of a file type.
SpecImport == InitEditing /\ [][NextImport]_vars


\* The ACPI device helper runs.
InitHelper == InitAcpi /\ IdlePath /\ IdleHw /\ IdleEd /\ IdleLoader /\ IdleUsb
SpecAcpi == InitHelper /\ [][NextAcpi]_vars

\* The ACPI device helper loads its device list.
InitLoading == InitLoader /\ IdlePath /\ IdleHw /\ IdleEd /\ IdleAcpi /\ IdleUsb
SpecLoader == InitLoading /\ [][NextLoader]_vars

\* The USB customizer runs.
InitCustomizer ==
    InitUsb /\ IdlePath /\ IdleHw /\ IdleEd /\ IdleAcpi /\ IdleLoader
SpecUsb == InitCustomizer /\ [][NextUsb]_vars

\* The USB customizer with worker threads that are scheduled: a thread that
\* can take a step takes one in the end (the sleeps and the key presses
\* return).
SpecUsbFair == SpecUsb /\ WF_vars(WorkerStep) /\ WF_vars(MainStep)

(***************************************************************************)
(* Properties of the path converter                                        *)
(***************************************************************************)
(* C2: converting an enumerator path to firmware notation and the result  *)
(* back returns the path that was typed, character for character.         *)
EnumeratorRoundTrip ==
    (/\ typed \in WinPathInputs /\ hops = 2 /\ last = "convert"
     /\ convert_windows_to_dp(Strip(typed)).ok
     /\ input_entry = convert_windows_to_dp(Strip(typed)).val)
        => (message = "none" /\ output_entry = typed)

(* C3: converting a canonical firmware path to enumerator notation gives  *)
(* PCI segments of exactly four hex digits, and converting that result    *)
(* back returns the firmware path that was typed.                         *)
FirmwareRoundTrip ==
    /\ (/\ typed \in DpPathInputs /\ hops = 1 /\ last = "convert"
        /\ input_entry = typed /\ message = "none")
           => \A i \in 1..Len(Split(output_entry, "#")) :
                 LET part == Split(output_entry, "#")[i]
                 IN  StartsWith(part, <<"P","C","I","(">>)
                        => /\ Len(part) = 9
                           /\ \A j \in 5..8 : IsHexDigit(part[j])
    /\ (/\ typed \in DpPathInputs /\ hops = 2 /\ last = "convert"
        /\ convert_dp_to_windows(Strip(typed)).ok
        /\ input_entry = convert_dp_to_windows(Strip(typed)).val)
           => (message = "none" /\ output_entry = typed)

(***************************************************************************)
(* Properties of the hardware information tool                             *)
(***************************************************************************)
\* VVVV&DDDD: four hex digits, an ampersand, four hex digits.
WellFormedId(q) ==
    /\ Len(q) = 9
    /\ q[5] = "&"
    /\ \A i \in {1, 2, 3, 4, 6, 7, 8, 9} : IsHexDigit(q[i])

\* The keys of a map, and the values stored under one key.
KeysOf(d) == {d[i][1] : i \in 1..Len(d)}
StoredUnder(d, k) == {d[i][2] : i \in {j \in 1..Len(d) : d[j][1] = k}}

\* The maps the lookup of the last loop pass read: those of the kind of
\* the device.
SupportRead == IF last_kind = "none" THEN <<>> ELSE db_support[last_kind]
DetailsRead == IF last_kind = "none" THEN <<>> ELSE db_details[last_kind]
KextRead == IF last_kind = "none" THEN <<>> ELSE db_kext[last_kind]

\* The keys the fuzzy and wildcard tiers of a well-formed identifier name.
FuzzyKeyOf(q) == SubSeq(q, 1, 7) \o <<"F","F">>
WildcardKeyOf(q) == SubSeq(q, 1, 5) \o <<"F","F","F","F">>

\* The tier that wins for a well-formed identifier and the key it wins by.
IdWinner(q) ==
    IF q \in KeysOf(SupportRead) THEN <<"exact", q>>
    ELSE IF FuzzyKeyOf(q) \in KeysOf(SupportRead) THEN <<"fuzzy", FuzzyKeyOf(q)>>
    ELSE IF WildcardKeyOf(q) \in KeysOf(SupportRead)
    THEN <<"wildcard", WildcardKeyOf(q)>>
    ELSE <<"None", <<>>>>

(* C1: for a well-formed identifier the match kind is exact if the        *)
(* identifier is a status key, else fuzzy if VVVV&DDFF is one, else       *)
(* wildcard if VVVV&FFFF is one, else none with no status; the status     *)
(* returned is the one stored under the winning tier's key.               *)
IdTierPrecedence ==
    (via = "id" /\ WellFormedId(query))
        => /\ ~lookup.raised
           /\ lookup.match_type = IdWinner(query)[1]
           /\ IF IdWinner(query)[1] = "None"
              THEN lookup.status = None
              ELSE lookup.status \in StoredUnder(SupportRead, IdWinner(query)[2])

\* A fuzzy hit although the vendor's wildcard key is stored too.
IdFuzzyBeatsWildcard ==
    /\ via = "id" /\ WellFormedId(query)
    /\ lookup.match_type = "fuzzy"
    /\ WildcardKeyOf(query) \in KeysOf(SupportRead)

\* The places of the '*' keys whose rest is, whatever its case, inside the
\* upper-cased name, and of the keys without '*' that are inside it.
FuzzyCandidates(U) ==
    {i \in 1..Len(SupportRead) :
        LET key == SupportRead[i][1]
        IN  key # <<>> /\ key[1] = "*" /\ Contains(U, Upper(Tail(key)))}
WildcardCandidates(U) ==
    {i \in 1..Len(SupportRead) :
        LET key == SupportRead[i][1]
        IN  (key = <<>> \/ key[1] # "*") /\ Contains(U, key)}
Earliest(S) == CHOOSE i \in S : \A j \in S : i <= j

(* C4: for a device name with upper-cased form U the result is exact if U *)
(* is a status key, else fuzzy by the first '*' key in storage order      *)
(* whose rest is a substring of U, else wildcard by the first key without *)
(* '*' that is a substring of U, else none; a fuzzy candidate wins over a *)
(* wildcard candidate stored before it.                                   *)
NameTierPrecedence ==
    via = "name"
        => LET U == Upper(query)
               byKey(i) ==
                   /\ lookup.status = SupportRead[i][2]
                   /\ SupportRead[i][1] \notin KeysOf(DetailsRead)
                         => lookup.detail = SupportedBy(SupportRead[i][1])
           IN  IF U \in KeysOf(SupportRead)
               THEN /\ lookup.match_type = "exact"
                    /\ lookup.status \in StoredUnder(SupportRead, U)
               ELSE IF FuzzyCandidates(U) # {}
               THEN /\ lookup.match_type = "fuzzy"
                    /\ byKey(Earliest(FuzzyCandidates(U)))
               ELSE IF WildcardCandidates(U) # {}
               THEN /\ lookup.match_type = "wildcard"
                    /\ byKey(Earliest(WildcardCandidates(U)))
               ELSE lookup.match_type = "None" /\ lookup.status = None

\* A fuzzy hit on a name although a wildcard candidate is stored earlier.
NameFuzzyBeatsEarlierWildcard ==
    /\ via = "name"
    /\ lookup.match_type = "fuzzy"
    /\ WildcardCandidates(Upper(query)) # {}
    /\ Earliest(WildcardCandidates(Upper(query)))
           < Earliest(FuzzyCandidates(Upper(query)))

(* C5, as claimed: the key reported with a fuzzy or wildcard hit is the   *)
(* database key that produced the hit (VVVV&DDFF, VVVV&FFFF, or the '*'   *)
(* or substring key of a name), not the query.                            *)
ReportedKeyIsHitKey ==
    /\ (via = "id" /\ WellFormedId(query) /\ lookup.match_type \in {"fuzzy", "wildcard"})
           => lookup.id = IdWinner(query)[2]
    /\ (via = "name" /\ lookup.match_type = "fuzzy")
           => lookup.id = SupportRead[Earliest(FuzzyCandidates(Upper(query)))][1]
    /\ (via = "name" /\ lookup.match_type = "wildcard")
           => lookup.id = SupportRead[Earliest(WildcardCandidates(Upper(query)))][1]

(* C5, amended: the identifier reported is the query itself (the          *)
(* upper-cased name for a disk) for an exact, fuzzy or wildcard hit       *)
(* alike; the key that produced a fuzzy or wildcard hit is used only to   *)
(* read the status, the detail and the driver.                            *)
ReportedKeyIsQuery ==
    /\ (via = "id" /\ WellFormedId(query))
           => /\ lookup.id = query
              /\ (lookup.match_type \in {"fuzzy", "wildcard"}
                  /\ IdWinner(query)[2] \in KeysOf(DetailsRead))
                     => lookup.detail
                            \in StoredUnder(DetailsRead, IdWinner(query)[2])
    /\ via = "name" => lookup.id = Upper(query)

\* A fuzzy hit whose detail was read under the fuzzy key.
FuzzyHitReportsQuery ==
    /\ via = "id" /\ WellFormedId(query)
    /\ lookup.match_type = "fuzzy"
    /\ FuzzyKeyOf(query) # query
    /\ FuzzyKeyOf(query) \in KeysOf(DetailsRead)
    /\ lookup.id = query

\* The lines of the list of kind k that are entries: not blank, not a
\* comment, and holding an '='.
EntryLines(k) ==
    {i \in 1..Len(list_file[k]) :
        LET line == Strip(list_file[k][i])
        IN  line # <<>> /\ line[1] # "#" /\ HasChar(line, "=")}

\* Where the claim stores an entry line: the map its suffix selects and the
\* key, suffix removed and upper-cased; and the value, trimmed.
ClaimedTarget(k, i) ==
    LET key == SplitOnce(Strip(list_file[k][i]), "=")[1]
    IN  IF EndsWith(key, DotInfo)
        THEN <<"details", Upper(SubSeq(key, 1, Len(key) - 5))>>
        ELSE IF EndsWith(key, DotKext)
        THEN <<"kext", Upper(SubSeq(key, 1, Len(key) - 5))>>
        ELSE <<"support", Upper(key)>>
ClaimedValue(k, i) == Strip(SplitOnce(Strip(list_file[k][i]), "=")[2])
MapNamed(k, name) ==
    IF name = "details" THEN db_details[k]
    ELSE IF name = "kext" THEN db_kext[k]
    ELSE db_support[k]

(* C6: after the load, every entry line of a list is found in the map of   *)
(* that list its suffix selects, under its key upper-cased and without the *)
(* suffix, with its value trimmed of surrounding whitespace (the last line *)
(* of a key decides), and every key of the three maps comes from a line    *)
(* that holds an '='.                                                      *)
LenientLoadStoresTrimmed ==
    loaded
        => \A k \in ListsRead(tool) :
           /\ \A i \in EntryLines(k) :
                  (\A j \in EntryLines(k) :
                       j > i => ClaimedTarget(k, j) # ClaimedTarget(k, i))
                      => StoredUnder(MapNamed(k, ClaimedTarget(k, i)[1]),
                                     ClaimedTarget(k, i)[2])
                             = {ClaimedValue(k, i)}
           /\ Len(db_support[k]) + Len(db_details[k]) + Len(db_kext[k])
                  <= Cardinality({i \in 1..Len(list_file[k]) :
                                     HasChar(list_file[k][i], "=")})

(* C9: the identifier extracted from a descriptor that holds VEN_ and     *)
(* DEV_ tokens is the two halves joined by '&' in upper case; a           *)
(* descriptor without both tokens gives the empty identifier.             *)
ExtractedIdIsUppercase ==
    via \in {"id", "cli"}
        => /\ \A e \in PnpTable :
                  scanned = e.text => query = Upper(e.ven \o <<"&">> \o e.dev)
           /\ scanned \in PnpWithoutId => query = <<>>

(* C10: a query that differs from a stored key only in the case of its    *)
(* hex letters gets the status, detail and driver stored under that key,  *)
(* from the command-line lookup and from the exact tier of the window's.  *)
ExactLookupIgnoresCase ==
    (via \in {"id", "cli"} /\ WellFormedId(query)
     /\ Upper(query) \in KeysOf(SupportRead))
        => /\ lookup.status \in StoredUnder(SupportRead, Upper(query))
           /\ via = "id" => lookup.match_type = "exact"
           /\ Upper(query) \in KeysOf(DetailsRead)
                 => lookup.detail \in StoredUnder(DetailsRead, Upper(query))
           /\ Upper(query) \in KeysOf(KextRead)
                 => lookup.kext \in StoredUnder(KextRead, Upper(query))

(***************************************************************************)
(* Properties of the support-list editor                                   *)
(***************************************************************************)
\* The place of a key in an entry set, 0 when it is not there.
PlaceOf(entries, key) ==
    IF DictHas(entries, key)
    THEN CHOOSE i \in 1..Len(entries) : entries[i][1] = key
    ELSE 0

(* C7: with s the serialization of the loaded file text, loading and      *)
(* serializing s gives s again; every status, detail and driver present   *)
(* for a key after loading the text is present with the same value for    *)
(* that key after loading s; and the keys keep their relative order.      *)
SerializeLoadRoundTrip ==
    LET first == parse_file(file_content)
        s == generate_file_content(first)
        second == parse_file(s)
    IN  /\ generate_file_content(second) = s
        /\ \A i \in 1..Len(first) :
              /\ DictHas(second, first[i][1])
              /\ \A f \in {"main", "info", "kext"} :
                    first[i][2][f] # None
                        => DictGet(second, first[i][1], NoFields)[f]
                               = first[i][2][f]
        /\ \A i, j \in 1..Len(first) :
              i < j => PlaceOf(second, first[i][1]) < PlaceOf(second, first[j][1])

\* The strict rule a line breaks, "none" when it breaks none: a line that
\* is not blank and not a comment must hold an '='; a key without the
\* .info or .kext suffix must have the shape 4hex&4hex; the status value
\* of such a key must be "0" or "1".
RuleBroken(raw) ==
    LET line == Strip(raw)
        key == Strip(SplitOnce(line, "=")[1])
        value == Strip(SplitOnce(line, "=")[2])
        suffixed == EndsWith(key, DotInfo) \/ EndsWith(key, DotKext)
    IN  IF line = <<>> \/ line[1] = "#" THEN "none"
        ELSE IF ~HasChar(line, "=") THEN "separator"
        ELSE IF suffixed THEN "none"
        ELSE IF ~WellFormedId(key) THEN "identifier"
        ELSE IF value = <<>> THEN "status_empty"
        ELSE IF value \notin {<<"0">>, <<"1">>} THEN "status"
        ELSE "none"

\* The lines of the validated text that break a rule.
BrokenLines == {i \in 1..Len(SplitLines(content)) :
                   RuleBroken(SplitLines(content)[i]) # "none"}

\* One error for each line that breaks a rule and for no other line, each
\* with the 1-based place of its line.
OneErrorPerBrokenLine ==
    /\ Len(errors) = Cardinality(BrokenLines)
    /\ {errors[k].line_no : k \in 1..Len(errors)} = BrokenLines
    /\ \A k \in 1..Len(errors) :
          errors[k].line = Strip(SplitLines(content)[errors[k].line_no])

(* C8, as claimed: validation reports exactly one error, with its 1-based *)
(* line number, for each line that breaks a strict rule and none for any  *)
(* other line, and every line that breaks a rule (no separator, a         *)
(* malformed identifier, a status value other than "0" or "1") is in the  *)
(* repairable list.                                                       *)
EveryBrokenLineIsRepairable ==
    event = "-VALIDATE-"
        => /\ OneErrorPerBrokenLine
           /\ \A i \in BrokenLines :
                 Strip(SplitLines(content)[i]) \in Range(repairable_errors)

(* C8, amended: validation reports exactly one error, with its 1-based    *)
(* line number, for each line that breaks a strict rule and none for any  *)
(* other line; a line is in the repairable list exactly when it has no    *)
(* separator, a malformed identifier or a non-empty status value other    *)
(* than "0" or "1"; a line whose status value is empty is reported with   *)
(* its own message and is not repairable.                                 *)
BrokenLineIsRepairableUnlessStatusEmpty ==
    event = "-VALIDATE-"
        => /\ OneErrorPerBrokenLine
           /\ \A i \in BrokenLines :
                 LET raw == SplitLines(content)[i]
                 IN  IF RuleBroken(raw) = "status_empty"
                     THEN /\ Strip(raw) \notin Range(repairable_errors)
                          /\ \E k \in 1..Len(errors) :
                                /\ errors[k].line_no = i
                                /\ errors[k].msg = "empty_status"
                     ELSE Strip(raw) \in Range(repairable_errors)
           /\ Len(repairable_errors)
                  = Cardinality({i \in BrokenLines :
                        RuleBroken(SplitLines(content)[i]) # "status_empty"})

\* A validation that found three broken lines, one of them with an empty
\* status, and offers the two others for repair.
ValidatedWithEmptyStatus ==
    /\ event = "-VALIDATE-"
    /\ window = "validate"
    /\ Len(errors) = 3
    /\ \E k \in 1..3 : errors[k].msg = "empty_status"
    /\ Len(repairable_errors) = 2

(***************************************************************************)
(* The ACPI helper: the byte split of build_gpu_spoof_ssdt                 *)
(***************************************************************************)
\* The id the dialog passes to build_gpu_spoof_ssdt.
PassedId == Strip(device_id_input)

FourHexDigits(id) == Len(id) = 4 /\ \A i \in 1..4 : IsHexDigit(id[i])

\* The last build spliced literals into the template and wrote the file.
Spliced == build.written # None

\* An input that is not four hex digits fails and produces nothing.
MalformedIdFails ==
    (build # NotBuilt /\ ~FourHexDigits(PassedId))
        => /\ build.returned = "False"
           /\ build.high_byte = None
           /\ build.low_byte = None
           /\ build.written = None

(* C11, as claimed: for a device id of four hex digits d1d2d3d4 the        *)
(* literal spliced as the high byte is 0x followed by d3d4 and the one     *)
(* spliced as the low byte is 0x followed by d1d2, the digits rendered as  *)
(* they were given (67DF gives 0xDF and 0x67); an input that is not four   *)
(* hex digits fails, and no literal and no output file is produced.        *)
ByteSplitKeepsDigits ==
    /\ (Spliced /\ FourHexDigits(PassedId))
           => /\ build.high_byte = <<"0","x">> \o SubSeq(PassedId, 3, 4)
              /\ build.low_byte = <<"0","x">> \o SubSeq(PassedId, 1, 2)
    /\ MalformedIdFails

(* C11, amended: for a device id of four hex digits d1d2d3d4 the literal   *)
(* spliced as the high byte is 0x followed by d3d4 in lower case and the   *)
(* one spliced as the low byte is 0x followed by d1d2 in lower case (67DF  *)
(* gives 0xdf and 0x67), and both are in the written text; an input that   *)
(* is not four hex digits fails, and no literal and no output file is      *)
(* produced.                                                               *)
ByteSplitLowerCase ==
    /\ (Spliced /\ FourHexDigits(PassedId))
           => /\ build.high_byte = <<"0","x">> \o Lower(SubSeq(PassedId, 3, 4))
              /\ build.low_byte = <<"0","x">> \o Lower(SubSeq(PassedId, 1, 2))
              /\ Contains(build.written, build.high_byte)
              /\ Contains(build.written, build.low_byte)
    /\ MalformedIdFails

\* The id 67DF was spliced as 0xdf and 0x67.
SplicedUpperCaseId ==
    /\ PassedId = <<"6","7","D","F">>
    /\ Spliced
    /\ build.high_byte = <<"0","x","d","f">>
    /\ build.low_byte = <<"0","x","6","7">>

(***************************************************************************)
(* Identifiers that do not have the shape VVVV&DDDD                        *)
(*                                                                         *)
(* Every lookup by identifier is given what extract_hardware_ids returned: *)
(* the empty text, or two groups of four hex digits joined by '&'.         *)
(***************************************************************************)
\* The result both lookups return for an identifier they do not look up.
NoneResult == MatchResult(None, IdNotAvailable, DetailUnknown, KextNone, "None")

(* C12: for a query identifier that is empty or does not have the shape    *)
(* VVVV&DDDD, the resolution by identifier returns no status and no match  *)
(* kind whatever the lists hold, does not raise, and reads no list entry:  *)
(* the result is the same fixed one for every content of the maps.         *)
MalformedQueryGivesNone ==
    (via \in {"id", "cli"} /\ ~WellFormedId(query))
        => /\ ~lookup.raised
           /\ lookup.status = None
           /\ lookup.match_type = "None"
           /\ lookup = NoneResult

\* A device without an identifier was looked up in maps that hold a status
\* under the empty key.
EmptyQueryAgainstEmptyKey ==
    /\ via \in {"id", "cli"}
    /\ scanned \in PnpWithoutId
    /\ query = <<>>
    /\ <<>> \in KeysOf(SupportRead)
    /\ lookup.status = None

(***************************************************************************)
(* Comment lines and the display of a status                               *)
(***************************************************************************)
\* A line that begins with '#'.
IsCommentLine(line) == StartsWith(Strip(line), <<"#">>)
NotCommentLine(line) == ~IsCommentLine(line)

(* C14: the lenient load ignores comment lines: the loaded status, detail  *)
(* and driver data are those of the file without its lines that begin      *)
(* with '#', whether or not such a line contains '='.                      *)
CommentLinesAreIgnored ==
    loaded
        => \A k \in ListsRead(tool) :
               LET without == load_support_info(
                                  SelectSeq(list_file[k], NotCommentLine))
               IN  /\ db_support[k] = without.support
                   /\ db_details[k] = without.details
                   /\ db_kext[k] = without.kext

\* A device was scanned and its lookup found a stored status.
StatusPresent == via \in {"id", "name", "cli"} /\ lookup.status # None

(* C15, as claimed: a result whose stored status is present and is         *)
(* anything other than "1" is displayed as unsupported, and the stored     *)
(* value is carried unchanged as the raw status.                           *)
NotOneIsShownUnsupported ==
    (StatusPresent /\ lookup.status # <<"1">>)
        => /\ item.status = "unsupported"
           /\ item.raw_status = lookup.status

(* C15, amended: a result whose stored status is "0" is displayed as       *)
(* unsupported; one whose stored status is present and is neither "1" nor  *)
(* "0" (for example "2" or the empty string) is displayed as unknown, in   *)
(* grey by the window and in yellow by the command-line tool; in both      *)
(* cases the stored value is carried unchanged as the raw status.          *)
OnlyZeroIsShownUnsupported ==
    (StatusPresent /\ lookup.status # <<"1">>)
        => /\ item.status = (IF lookup.status = <<"0">> THEN "unsupported"
                             ELSE "unknown")
           /\ item.colour = (IF lookup.status = <<"0">> THEN "red"
                             ELSE IF via = "cli" THEN "yellow" ELSE "grey")
           /\ item.raw_status = lookup.status

\* The window shows a device whose stored status is "2" as unknown.
StatusTwoShownUnknown ==
    /\ via = "id"
    /\ lookup.status = <<"2">>
    /\ item = Item("unknown", "grey", <<"2">>)

(***************************************************************************)
(* The ACPI helper: path conversions and the address of the spoof table    *)
(***************************************************************************)
\* The segments of an enumerator path and their kinds.
SegmentsOf(path) == Split(path, "#")

IsAcpiSegment(part) ==
    /\ Len(part) >= 7
    /\ SubSeq(part, 1, 5) = <<"A","C","P","I","(">>
    /\ part[Len(part)] = ")"
    /\ \A i \in 6..(Len(part) - 1) : part[i] \notin {"(", ")"}

IsPciSegment(part) ==
    \/ /\ Len(part) >= 10
       /\ SubSeq(part, 1, 8) = <<"P","C","I","R","O","O","T","(">>
       /\ part[Len(part)] = ")"
       /\ \A i \in 9..(Len(part) - 1) : IsDecDigit(part[i])
    \/ /\ Len(part) = 9
       /\ SubSeq(part, 1, 4) = <<"P","C","I","(">>
       /\ part[9] = ")"
       /\ \A i \in 5..8 : IsHexDigit(part[i])

IsMixedPath(path) ==
    /\ \E i \in 1..Len(SegmentsOf(path)) : IsAcpiSegment(SegmentsOf(path)[i])
    /\ \E i \in 1..Len(SegmentsOf(path)) : IsPciSegment(SegmentsOf(path)[i])

\* show_location_details has run both conversions on the selected path.
DetailsShown == pci_converted # NotConverted /\ acpi_converted # NotConverted

(* C16: a path that has at least one ACPI(name) segment and at least one   *)
(* PCIROOT(n) or PCI(xxyy) segment, in any order, is rejected by each of   *)
(* the three converters: each raises or returns None, and none produces a  *)
(* converted text.                                                         *)
MixedPathsAreRejected ==
    (DetailsShown /\ IsMixedPath(location_path))
        => /\ ~pci_converted.ok
           /\ ~acpi_converted.ok
           /\ ~convert_windows_to_dp(location_path).ok

\* The details of a device behind a PCI root and an ACPI name were shown
\* and neither conversion gave a text.
MixedPathShown ==
    /\ location_path = <<"P","C","I","R","O","O","T","(","0",")","#","P","C","I","(","0","1","0","0",")","#","A","C","P","I","(","G","F","X","0",")">>
    /\ pci_converted = ReturnedNone
    /\ acpi_converted = ReturnedNone

\* A path whose segments are all ACPI(name), and the name of a segment.
IsAcpiPath(path) ==
    \A i \in 1..Len(SegmentsOf(path)) : IsAcpiSegment(SegmentsOf(path)[i])

NameOf(part) == SubSeq(part, 6, Len(part) - 1)

\* A name without its leading and trailing underscores: the part between
\* the first and the last character that is not an underscore.
WithoutOuterUnderscores(name) ==
    LET inner == {i \in 1..Len(name) : name[i] # "_"}
    IN  IF inner = {} THEN <<>>
        ELSE SubSeq(name, CHOOSE i \in inner : \A j \in inner : i <= j,
                          CHOOSE i \in inner : \A j \in inner : j <= i)

(* C17: for a path whose segments are all ACPI(name), convert_acpi_path    *)
(* gives the names in the same order, each without its leading and        *)
(* trailing underscores, joined with '.', one output segment for each     *)
(* input segment.                                                          *)
AcpiNamesJoinedInOrder ==
    (DetailsShown /\ IsAcpiPath(location_path))
        => /\ acpi_converted.ok
           /\ LET out == Split(acpi_converted.val, ".")
                  segs == SegmentsOf(location_path)
              IN  /\ Len(out) = Len(segs)
                  /\ \A i \in 1..Len(segs) :
                         out[i] = WithoutOuterUnderscores(NameOf(segs[i]))

\* ACPI(_SB_)#ACPI(PCI0)#ACPI(GFX0) was converted to SB.PCI0.GFX0.
AcpiPathShown ==
    /\ location_path = <<"A","C","P","I","(","_","S","B","_",")","#","A","C","P","I","(","P","C","I","0",")","#","A","C","P","I","(","G","F","X","0",")">>
    /\ acpi_converted = Done(<<"S","B",".","P","C","I","0",".","G","F","X","0">>)

\* The path truncated just before its rightmost segment that begins with
\* PEGP, or the whole path when no segment does.
TruncatedBeforeMarker(path) ==
    LET parts == Split(path, ".")
        marked == {i \in 1..Len(parts) :
                      Len(parts[i]) >= 4
                      /\ SubSeq(parts[i], 1, 4) = <<"P","E","G","P">>}
    IN  IF marked = {} THEN path
        ELSE Join(SubSeq(parts, 1, (CHOOSE i \in marked : \A j \in marked : j <= i) - 1),
                  <<".">>)

(* C18: when the table for the RX6x50 template is built, the address put   *)
(* into the template is the ACPI path truncated just before its rightmost  *)
(* segment that begins with PEGP, and the unmodified path when no segment  *)
(* begins with PEGP; the operation completes in both cases.                *)
RxAddressIsTruncatedPath ==
    (method = "spoof_rx6500" /\ build.high_byte # None)
        => /\ build.returned \in {"True", "False"}
           /\ build.address = TruncatedBeforeMarker(acpi_path)

(***************************************************************************)
(* The path converter: strictness                                          *)
(***************************************************************************)
\* An enumerator segment that is exactly PCIROOT(<decimal digits>) or
\* PCI(<4 hex digits>).
IsExactEnumeratorSegment(part) == IsPciSegment(part)

\* A run of one or more hex digits after 0x, from place a to place b.
IsHexLiteral(part, a, b) ==
    /\ b >= a + 2
    /\ part[a] = "0" /\ part[a + 1] = "x"
    /\ \A i \in (a + 2)..b : IsHexDigit(part[i])

\* A firmware segment that is exactly PciRoot(0x<hex>) or
\* Pci(0x<hex>,0x<hex>).
IsExactFirmwareSegment(part) ==
    \/ /\ Len(part) >= 12
       /\ SubSeq(part, 1, 8) = <<"P","c","i","R","o","o","t","(">>
       /\ part[Len(part)] = ")"
       /\ IsHexLiteral(part, 9, Len(part) - 1)
    \/ /\ Len(part) >= 12
       /\ SubSeq(part, 1, 4) = <<"P","c","i","(">>
       /\ part[Len(part)] = ")"
       /\ \E c \in 8..(Len(part) - 4) :
             /\ part[c] = ","
             /\ IsHexLiteral(part, 5, c - 1)
             /\ IsHexLiteral(part, c + 1, Len(part) - 1)

\* Every segment of the text is exact, in one of the two notations.
IsExactPath(text) ==
    \/ \A i \in 1..Len(Split(text, "#")) :
           IsExactEnumeratorSegment(Split(text, "#")[i])
    \/ \A i \in 1..Len(Split(text, "/")) :
           IsExactFirmwareSegment(Split(text, "/")[i])

(* C19: a conversion succeeds only if every segment of the input is exact  *)
(* (PCIROOT(<decimal digits>) or PCI(<4 hex digits>); PciRoot(0x<hex>) or    *)
(* Pci(0x<hex>,0x<hex>)), with nothing before, after or in place of the     *)
(* closing parenthesis; a path with a segment that deviates is refused      *)
(* with an error and no text is put out.                                    *)
OnlyExactPathsConvert ==
    (last = "convert" /\ ~IsExactPath(Strip(input_entry)))
        => /\ message # "none"
           /\ hops = 1 => output_entry = <<>>

(***************************************************************************)
(* The editor: what Save, Delete and Import leave in the entry set         *)
(***************************************************************************)
(* C13: starting from an empty entry set, after any sequence of Save,      *)
(* Delete and Import operations, with any import options and any import    *)
(* file, every key of the entry set has the shape VVVV&DDDD (four hex      *)
(* digits, an ampersand, four hex digits).                                 *)
EveryKeyIsAnIdentifier ==
    parse_file(opened) = <<>>
        => \A i \in 1..Len(current_entries) : WellFormedId(current_entries[i][1])

(* C20: in every state reached from loading a list file in which          *)
(* validation finds no error, by any sequence of Save, Delete, Import,     *)
(* Refresh and Repair operations, every status that is present in the      *)
(* entry set is exactly "0" or "1".                                        *)
EveryStatusIsZeroOrOne ==
    validate_file_content(opened).errors = <<>>
        => \A i \in 1..Len(current_entries) :
               current_entries[i][2].main \in {None, <<"0">>, <<"1">>}

(***************************************************************************)
(* The editor: the order of the serialized list                            *)
(***************************************************************************)
\* The fields of an entry that are present, in the order status, detail,
\* driver, and the line of one field.
FieldsPresent(data) ==
    SelectSeq(<<"main", "info", "kext">>, LAMBDA f : data[f] # None)

FieldSuffix(f) ==
    CASE f = "main" -> <<>>
      [] f = "info" -> <<".","i","n","f","o">>
      [] f = "kext" -> <<".","k","e","x","t">>

LineOfField(key, data, f) == key \o FieldSuffix(f) \o <<"=">> \o data[f]

\* The number of lines the entries before place i take.
RECURSIVE LinesBefore(_, _)
LinesBefore(entries, i) ==
    IF i <= 1 THEN 0
    ELSE LinesBefore(entries, i - 1) + Len(FieldsPresent(entries[i - 1][2]))

\* The text lists the keys in the order of the entry set, and for each key
\* the lines of its present fields, contiguously, status first, then
\* detail, then driver, and nothing else.
ListsEntriesInOrder(text, entries) ==
    LET total == LinesBefore(entries, Len(entries) + 1)
        lines == IF text = <<>> THEN <<>> ELSE Split(text, "\n")
    IN  /\ Len(lines) = total
        /\ \A i \in 1..Len(entries) :
               LET present == FieldsPresent(entries[i][2])
               IN  \A k \in 1..Len(present) :
                       lines[LinesBefore(entries, i) + k]
                           = LineOfField(entries[i][1], entries[i][2], present[k])

KeySequence(entries) == [i \in 1..Len(entries) |-> entries[i][1]]

(* C21: the serialized text lists the keys in the insertion order of the   *)
(* entry set and, for each key, contiguously and in this order, the lines  *)
(* key=status, key.info=detail, key.kext=driver, leaving out exactly the   *)
(* absent fields; a Save keeps every key that was present at its place     *)
(* among the other keys (a new key goes to the end).                       *)
SerializationKeepsOrder ==
    /\ [](ListsEntriesInOrder(generate_file_content(current_entries), current_entries))
    /\ [][(event' = "-SAVE-" /\ ops' = ops + 1)
             => /\ Len(current_entries') >= Len(current_entries)
                /\ SubSeq(KeySequence(current_entries'), 1, Len(current_entries))
                       = KeySequence(current_entries)
                /\ file_content' # file_content
                       => ListsEntriesInOrder(file_content', current_entries')]_vars

\* A Save gave the first of two keys a driver; the key stayed first and its
\* lines come before the line of the other key.
SavedFirstKeyInPlace ==
    /\ event = "-SAVE-"
    /\ KeySequence(current_entries) = <<<<"1","0","0","2","&","6","7","D","F">>, <<"G","P","U">>>>
    /\ current_entries[1][2] = [main |-> <<"1">>, info |-> None, kext |-> <<"k">>]
    /\ file_content = <<"1","0","0","2","&","6","7","D","F","=","1","\n","1","0","0","2","&","6","7","D","F",".","k","e","x","t","=","k","\n","G","P","U",".","i","n","f","o","=","x">>

(***************************************************************************)
(* The two conversions from enumerator to firmware notation                *)
(***************************************************************************)
\* A path made of PCIROOT(n) and PCI(xxyy) segments only.
IsEnumeratorPath(path) ==
    \A i \in 1..Len(SegmentsOf(path)) : IsPciSegment(SegmentsOf(path)[i])

(* C22: for an enumerator path made of PCIROOT(n) and PCI(xxyy) segments   *)
(* with four hex digits, in either case of the letters, convert_pci_path   *)
(* of the ACPI helper and convert_windows_to_dp of the path converter give *)
(* the same firmware path.                                                 *)
ConvertersAgree ==
    (pci_converted # NotConverted /\ IsEnumeratorPath(location_path))
        => pci_converted = convert_windows_to_dp(location_path)

(***************************************************************************)
(* The editor: a Save that is refused                                      *)
(***************************************************************************)
(* C23: a Save that is refused (empty identifier, identifier not of the    *)
(* shape VVVV&DDDD, or a non-empty status other than "0" and "1") leaves   *)
(* the entry set as it was, no key added and no field changed, and does    *)
(* not write the list file.                                                *)
RefusedSaveChangesNothing ==
    [][(event' = "-SAVE-" /\ ops' = ops + 1 /\ popup' # "none")
          => /\ current_entries' = current_entries
             /\ file_content' = file_content]_vars

(***************************************************************************)
(* The device loader: what a stopped loader publishes                      *)
(***************************************************************************)
(* C24: a loader that was stopped before the enumerator process had        *)
(* finished on its own neither writes the cache file nor emits             *)
(* data_loaded, so whatever a loader puts into the cache file or into the  *)
(* device list of the window is the complete output of a loader that ran   *)
(* to its end, under every interleaving of stop() with run().  The file    *)
(* is empty between the open and the write of such a loader.               *)
StoppedLoaderPublishesNothing ==
    /\ [](\A g \in 1..Len(loaders) :
             loaders[g].stopped_early
                 => ~loaders[g].wrote /\ ~loaders[g].emitted)
    /\ [][cache_file' # cache_file
             => /\ cache_file' \in {EmptyFile, DeviceLines}
                /\ \E g \in 1..Len(loaders) :
                       /\ loaders[g].pc \in {"save", "dump"}
                       /\ loaders'[g].pc # loaders[g].pc
                       /\ ~loaders[g].stopped_early]_vars
    /\ [][devices' # devices => devices' = DeviceLines]_vars

(***************************************************************************)
(* The USB customizer: stop and the copy of the results                    *)
(***************************************************************************)
(* C25: once stop_customization has set stop_requested during a run, the   *)
(* worker of that run never enters check_and_copy_results, under every     *)
(* interleaving of the stop request with the steps of the worker.          *)
StopPreventsCopy ==
    \A g \in 1..Len(workers) :
        ~(workers[g].entered_copy /\ workers[g].stopped_before_copy)

(***************************************************************************)
(* The USB customizer: every run returns to idle                           *)
(***************************************************************************)
\* The worker threads that have not cleared running yet, and the accepted
\* presses of the start button whose thread is not started yet.
ActiveWorkers ==
    {g \in 1..Len(workers) :
        workers[g].pc \notin {"finish", "finish_stop", "done"}}

PendingStarts == {i \in 1..Len(frames) : frames[i] = "start"}

(* C30: after start_customization has set running, the worker finishes in  *)
(* the end on every path (no executable, an exception of the key           *)
(* simulation, a stop request, the normal end; the retry loop of the B     *)
(* option ends after at most 5 attempts); when it finishes, running is     *)
(* False and proc is None, so that a later start is accepted; and while    *)
(* running is True a further start_customization starts no second worker.  *)
EveryRunReturnsToIdle ==
    /\ running ~> (~running /\ proc = 0)
    /\ <>[](\A g \in 1..Len(workers) : workers[g].pc = "done")
    /\ [](Cardinality(ActiveWorkers) + Cardinality(PendingStarts) <= 1)
    /\ [](running <=> (ActiveWorkers # {} \/ PendingStarts # {}))
    /\ [](~running => proc = 0 /\ StartAccepted(running, TRUE))
    /\ []((/\ ~running /\ after_queue = <<>>
            /\ \A g \in 1..Len(workers) : workers[g].pc = "done") => start_btn)
    /\ [](\A g \in 1..Len(workers) : workers[g].attempts <= max_attempts)
    /\ [][Len(workers') > Len(workers) => ActiveWorkers = {}]_vars

\* A second run has ended after a first one that ended with an exception
\* of the key simulation after the B option: the later start was accepted
\* and its worker went as far as the copy.
SecondRunEnded ==
    /\ Len(workers) = 2
    /\ clicks = 2
    /\ workers[1].pc = "done" /\ workers[2].pc = "done"
    /\ ~running
    /\ proc = 0
    /\ start_btn /\ after_queue = <<>> /\ frames = <<>>
    /\ workers[1].attempts = 1
    /\ ~workers[1].entered_copy
    /\ workers[2].copied

(***************************************************************************)
(* The spoof builder: the placeholders of the template                     *)
(***************************************************************************)
\* The four placeholder tokens of the spoof templates.
PlaceholderTokens ==
    { <<"{","A","D","D","R","}">>, <<"{","M","O","D","E","L","}">>,
      <<"0","x","A","B">>, <<"0","x","C","D">> }

(* C26: whenever build_gpu_spoof_ssdt writes an output file, the written   *)
(* text holds none of the placeholder tokens {ADDR}, {MODEL}, 0xAB and     *)
(* 0xCD, for every accepted path, device id, model name (empty and missing *)
(* too) and template type.                                                 *)
NoPlaceholderIsLeft ==
    Spliced => \A token \in PlaceholderTokens : ~Contains(build.written, token)

(***************************************************************************)
(* The spoof builder: the chained byte replacements                        *)
(***************************************************************************)
\* The token starts at position i of the text.
TokenAt(s, i, token) ==
    /\ i + Len(token) - 1 <= Len(s)
    /\ SubSeq(s, i, i + Len(token) - 1) = token

\* The text from position i on, with every token of the pairs replaced by
\* its literal in one pass: an inserted literal is never looked at again.
RECURSIVE Substituted(_, _, _)
Substituted(s, i, pairs) ==
    IF i > Len(s) THEN <<>>
    ELSE LET hits == {k \in 1..Len(pairs) : TokenAt(s, i, pairs[k][1])}
         IN  IF hits = {} THEN <<s[i]>> \o Substituted(s, i + 1, pairs)
             ELSE LET k == CHOOSE h \in hits : TRUE
                  IN  pairs[k][2]
                      \o Substituted(s, i + Len(pairs[k][1]), pairs)

\* The template of the last build and the model name that was passed.
UsedTemplate == IF method = "spoof_rx6500" THEN Rx6500Template ELSE GenericTemplate

ModelPair ==
    IF method # "spoof_rx6500" /\ Strip(model_input) # <<>>
    THEN << <<<<"{","M","O","D","E","L","}">>, Strip(model_input)>> >>
    ELSE <<>>

(* C27: the two byte replacements do not interfere.  For every valid id,   *)
(* ids with the pair CD or AB in either case too, the written text is the  *)
(* template with every 0xAB replaced by the high-byte literal and every    *)
(* 0xCD by the low-byte literal, position by position: the second          *)
(* replacement rewrites nothing that the first one inserted.               *)
ByteReplacementsDoNotInterfere ==
    Spliced =>
        build.written =
            Substituted(UsedTemplate, 1,
                << <<<<"{","A","D","D","R","}">>, build.address>>,
                   <<<<"0","x","A","B">>, build.high_byte>>,
                   <<<<"0","x","C","D">>, build.low_byte>> >> \o ModelPair)

\* A file was written for an id whose second pair of digits is CD.
SplicedIdEndingInCD ==
    /\ Spliced
    /\ SliceFrom(PassedId, 2) = <<"C","D">>

(***************************************************************************)
(* The list editor: an import that does not overwrite                      *)
(***************************************************************************)
\* The identifiers of the valid lines of an import file.
FileKeys(text) ==
    LET lines == SplitLines(text)
        valid == {i \in 1..Len(lines) :
                     /\ Strip(lines[i]) # <<>>
                     /\ Strip(lines[i])[1] # "#"
                     /\ is_valid_entry(Strip(lines[i])) = "ok"}
    IN  {Split(Strip(SplitOnce(Strip(lines[i]), "=")[1]), ".")[1] : i \in valid}

\* The identifier was in the list before the step and has the same status,
\* detail and driver after it.
KeptByStep(i) ==
    /\ DictHas(current_entries', current_entries[i][1])
    /\ DictGet(current_entries', current_entries[i][1], NoFields)
           = current_entries[i][2]

(* C28: an import with the overwrite option off changes no entry that was  *)
(* in the list: every identifier that was there keeps its status, detail   *)
(* and driver, and each of them that is in the import file is counted as   *)
(* skipped and not as imported, for every import file and every choice of  *)
(* the kinds of information.                                               *)
ImportWithoutOverwriteKeepsEntries ==
    [][(event' = "-IMPORT-" /\ ops' = ops + 1 /\ ~import_result'.overwrite)
       => /\ \A i \in 1..Len(current_entries) : KeptByStep(i)
          /\ import_result'.shown
             => /\ \A i \in 1..Len(current_entries) :
                       current_entries[i][1] \in FileKeys(import_result'.import_file)
                       => [id |-> current_entries[i][1], reason |-> "exists"]
                              \in Range(import_result'.skip_details)
                /\ import_result'.skipped_count
                       = Len(import_result'.skip_details)
                /\ import_result'.imported_count
                       = Len(current_entries') - Len(current_entries)]_vars

\* An import without overwrite has skipped an identifier that was in the
\* list and has imported another one.
ImportSkippedExistingKey ==
    /\ event = "-IMPORT-"
    /\ ops = 1
    /\ import_result.shown
    /\ ~import_result.overwrite
    /\ \E e \in Range(import_result.skip_details) :
           e.reason = "exists" /\ DictHas(parse_file(opened), e.id)
    /\ import_result.imported_count = 1

(***************************************************************************)
(* The list editor: what the automatic repair leaves                       *)
(***************************************************************************)
\* The positions of the lines of the validated text that a repair keeps:
\* the lines that are not blank and whose trimmed text validation does not
\* offer to delete.
KeptPositions ==
    LET lines == SplitLines(content)
    IN  {i \in 1..Len(lines) :
            /\ Strip(lines[i]) # <<>>
            /\ Strip(lines[i]) \notin Range(validate_file_content(content).repairable)}

\* The number of kept positions up to position i.
KeptUpTo(i) == Cardinality({j \in KeptPositions : j <= i})

\* The text after the step is made of the kept lines in their order, every
\* line that validation accepted is among them, and validation offers
\* nothing to delete in it.
RepairedByStep ==
    LET lines == SplitLines(content)
        after == SplitLines(file_content')
    IN  /\ Len(after) = Cardinality(KeptPositions)
        /\ \A i \in KeptPositions : after[KeptUpTo(i)] = lines[i]
        /\ file_content' = Join(after, <<"\n">>)
        /\ \A i \in 1..Len(lines) :
               (Strip(lines[i]) # <<>> /\ is_valid_entry(Strip(lines[i])) = "ok")
                   => i \in KeptPositions
        /\ validate_file_content(file_content').repairable = <<>>

(* C29: the automatic repair.  For every file content, the repaired text   *)
(* is made of exactly the lines of the original that are not blank and     *)
(* whose trimmed text is not in the repairable list, in their order, so    *)
(* that every non-blank line that validation accepted is kept; and the     *)
(* validation of the repaired text offers no line to delete.  A step that  *)
(* leaves the validation dialog is the close button, which changes         *)
(* nothing, or the repair.                                                 *)
RepairKeepsWhatValidationAccepted ==
    [][(window = "validate" /\ window' = "main")
       => \/ file_content' = file_content /\ current_entries' = current_entries
          \/ RepairedByStep]_vars

\* A repair has run: it dropped a line and kept another one.
RepairedAndKeptALine ==
    /\ window = "main"
    /\ event = "-VALIDATE-"
    /\ repairable_errors # <<>>
    /\ file_content # content
    /\ file_content # <<>>
    /\ \E i \in 1..Len(SplitLines(content)) : SplitLines(content)[i] = <<>>

=============================================================================
